---- MODULE Spec2Model ----
(***************************************************************************)
(* Model of the skill-to-actuation pipeline of Lemirq/htn2025 (backend):   *)
(*   - CohereServoPlanner (services/llm_agent.py): remote oracle with      *)
(*     lenient validation and the deterministic fallback;                  *)
(*   - RobotControlGenerator.generate_minimal_servo_sequence               *)
(*     (services/robot_controller.py): rate-limited command synthesis;     *)
(*   - SkillCompiler / PhaseMapper / ExecutionPlan (services/compiler.py,  *)
(*     core/models.py): compilation of a guide into a plan.                *)
(*                                                                         *)
(* Units: lengths of 3D targets are in tenths of a metre, max_velocity_hint*)
(* is in tenths, complexity scores are in 1/10000.  Strings that the code  *)
(* searches for substrings are sequences of one-character strings.         *)
(***************************************************************************)
EXTENDS Integers, Sequences, FiniteSets, TLC

VARIABLES
    \* ---- one call of plan_servo_positions / plan_servo_trajectory
    o_phase,        \* the ExecutionPhase the planner is asked about
    o_client,       \* CohereServoPlanner.client is set (TRUE) or None (FALSE)
    o_call,         \* the last call: which method, what the remote did, what came back
    \* ---- one call of generate_minimal_servo_sequence
    plan,           \* the ExecutionPlan argument: phases and constraints.max_velocity_hint
    client,         \* self.servo_planner.client is set
    pc,             \* position in the method
    max_delta,      \* local max_delta
    last_angles,    \* local last_angles
    phase_idx,      \* index of the phase of the outer loop
    waypoints,      \* local waypoints of the current phase
    wp_idx,         \* index of the next waypoint of the inner loop
    raw,            \* local raw of the last inner iteration
    sequence,       \* local sequence
    seq_counter,    \* local seq_counter
    delta_writes,   \* how many times max_delta was assigned in this call
    traj_source,    \* where the waypoints of the current phase came from
    returned,       \* the trajectories plan_servo_trajectory returned so far, in call order
    \* ---- two calls of generate_minimal_servo_sequence on one RobotControlGenerator
    calls,          \* the locals of each call; last_angles refers to a dict of `dicts`
    dicts,          \* the last_angles dicts allocated so far, by identity
    overlap,        \* a call took a step while the other one was under way
    \* ---- one run of post_sequence_to_robot
    p_mode,         \* robot_post_mode
    p_payload,      \* payload["sequence"]
    p_pc,           \* position in the function
    p_idx,          \* index of the step of the for loop
    angles,         \* local angles, the last-known angle of each of the six servos
    posts,          \* the POST requests issued so far, in order, with their outcome
    p_log,          \* the warnings logged so far
    \* ---- one call of ConstraintGenerator.generate_constraints
    g_domain,       \* the domain argument
    g_score,        \* the complexity_score argument, <<num, den>> in 1/10000
    g_constraints,  \* the PhysicalConstraints returned, <<>> before the call
    \* ---- runs of process_skill_with_streaming, each in a thread of its own
    runs,                       \* the locals of each run and the events it emitted
    active_sessions,            \* the module's dict: session id -> run whose processor is stored
    posted_sequence_sessions,   \* the module's set of session ids
    output_files,               \* the files of config.output_dir: name -> run that wrote it last
    post_threads,               \* the session ids post_sequence_to_robot threads were started for
    \* ---- one call of PhaseMapper.map_step_to_phase
    m_step,         \* the step (name, cues, difficulty_level)
    m_domain,       \* the SkillDomain
    m_phase,        \* the ExecutionPhase returned, <<>> before the call
    \* ---- SkillCompiler.compile_skill_guide, validate_execution_plan, the plan object
    guide,          \* the SkillGuide argument: domain and steps
    threshold,      \* config.complexity_threshold, in 1/10000
    c_pc,           \* "ready" before compile_skill_guide, "returned" or "raised" after
    c_error,        \* the class of the exception raised, "" if none
    c_score,        \* the local complexity_score of compile_skill_guide, <<num, den>>
    c_plan,         \* the ExecutionPlan object
    c_built,        \* the phases the plan was constructed with
    c_writes,       \* number of field assignments made to the plan after construction
    v_pc,           \* "ready" before validate_execution_plan is called, "returned" after
    warnings        \* the list validate_execution_plan returned last

oracleVars == <<o_phase, o_client, o_call>>
synthVars == <<plan, client, pc, max_delta, last_angles, phase_idx, waypoints,
               wp_idx, raw, sequence, seq_counter, delta_writes, traj_source,
               returned>>
mapVars == <<m_step, m_domain, m_phase>>
compileVars == <<guide, threshold, c_pc, c_error, c_score, c_plan, c_built, c_writes,
                 v_pc, warnings>>
threadVars == <<calls, dicts, overlap>>
postVars == <<p_mode, p_payload, p_pc, p_idx, angles, posts, p_log>>
constraintVars == <<g_domain, g_score, g_constraints>>
sessionVars == <<runs, active_sessions, posted_sequence_sessions, output_files, post_threads>>
vars == <<oracleVars, synthVars, mapVars, compileVars, threadVars, postVars, constraintVars,
          sessionVars>>

(***************************************************************************)
(* Small arithmetic helpers.                                               *)
(***************************************************************************)
Max(a, b) == IF a >= b THEN a ELSE b
Min(a, b) == IF a <= b THEN a ELSE b
Abs(a) == IF a >= 0 THEN a ELSE -a

\* Python's round() of the rational n/d (d > 0): nearest integer, ties to even.
RoundHalfEven(n, d) ==
    LET q == n \div d
        r == n % d
    IN  IF 2 * r < d THEN q
        ELSE IF 2 * r > d THEN q + 1
        ELSE IF q % 2 = 0 THEN q ELSE q + 1

(***************************************************************************)
(* Strings as sequences of characters: lower() and the `in` operator.      *)
(***************************************************************************)
UpperChars == <<"A","B","C","D","E","F","G","H","I","J","K","L","M",
                "N","O","P","Q","R","S","T","U","V","W","X","Y","Z">>
LowerChars == <<"a","b","c","d","e","f","g","h","i","j","k","l","m",
                "n","o","p","q","r","s","t","u","v","w","x","y","z">>
LowerChar(c) ==
    IF \E i \in 1..Len(UpperChars) : UpperChars[i] = c
    THEN LowerChars[CHOOSE i \in 1..Len(UpperChars) : UpperChars[i] = c]
    ELSE c
Lower(s) == [i \in 1..Len(s) |-> LowerChar(s[i])]
\* k in s
Contains(s, k) ==
    \E i \in 1..(Len(s) - Len(k) + 1) : SubSeq(s, i, i + Len(k) - 1) = k


(***************************************************************************)
(* JSON values as the planner's validators see them.                       *)
(***************************************************************************)
Num(n) == [t |-> "num", n |-> n, d |-> 1]           \* an integer
Frac(n, d) == [t |-> "num", n |-> n, d |-> d]       \* a float n/d
NonNumeric == [t |-> "str", n |-> 0, d |-> 1]       \* "abc", null, a list: float() raises
Absent == [t |-> "absent", n |-> 0, d |-> 1]        \* the key is not in the dict

\* dict.get(key, 90)
Get90(v) == IF v.t = "absent" THEN Num(90) ELSE v

\* variant: no lower limit, `min(180, iv)`
clamp_upper_only(v) ==
    LET iv == IF v.t = "num" THEN RoundHalfEven(v.n, v.d) ELSE 90
    IN  Min(180, iv)

\* CohereServoPlanner._clamp
clamp(v) ==
    LET iv == IF v.t = "num" THEN RoundHalfEven(v.n, v.d) ELSE 90
    IN  Max(0, Min(180, iv))

\* the nested clamp_int of generate_minimal_servo_sequence (same code as _clamp)
clamp_int(v) ==
    LET iv == IF v.t = "num" THEN RoundHalfEven(v.n, v.d) ELSE 90
    IN  Max(0, Min(180, iv))

JointNames == {"shoulder_vertical", "shoulder_horizontal", "elbow_vertical"}
ArmNames == {"left_arm", "right_arm"}

\* an arm object of a response: a dict with (some of) the three joints, or not a dict
ArmObj(sv, sh, ev) == [t |-> "obj", shoulder_vertical |-> sv,
                       shoulder_horizontal |-> sh, elbow_vertical |-> ev]
ArmAbsent == [t |-> "absent", shoulder_vertical |-> Absent,
              shoulder_horizontal |-> Absent, elbow_vertical |-> Absent]
ArmNotDict == [t |-> "notdict", shoulder_vertical |-> Absent,
               shoulder_horizontal |-> Absent, elbow_vertical |-> Absent]

WpObj(l, r) == [t |-> "obj", left_arm |-> l, right_arm |-> r]
WpNotDict == [t |-> "notdict", left_arm |-> ArmAbsent, right_arm |-> ArmAbsent]

\* results of code that may raise
Ok(v) == [ok |-> TRUE, val |-> v, exc |-> ""]
Raise(e) == [ok |-> FALSE, val |-> <<>>, exc |-> e]

(***************************************************************************)
(* The remote service's reply.  A reply either fails in transport          *)
(* (net # "ok") or carries a text; the text is a JSON document with        *)
(* possible syntax defects, and `data` is the value it denotes.            *)
(***************************************************************************)
ReasoningKeys == {"movement",
                  "left_shoulder_vertical", "left_shoulder_horizontal", "left_elbow_vertical",
                  "right_shoulder_vertical", "right_shoulder_horizontal", "right_elbow_vertical"}

NoWaypoints == [t |-> "absent", items |-> <<>>]
NoReasoning == [t |-> "absent", present |-> {}]

DataObj(wps, l, r, why) ==
    [t |-> "obj", waypoints |-> wps, left_arm |-> l, right_arm |-> r, reasoning |-> why]
DataNotObj ==
    [t |-> "notobj", waypoints |-> NoWaypoints, left_arm |-> ArmAbsent,
     right_arm |-> ArmAbsent, reasoning |-> NoReasoning]

Text(syntax, data) == [syntax |-> syntax, data |-> data]
Reply(net, text) == [net |-> net, text |-> text]

\* json.loads: only a text without syntax defects parses
json_loads(text) == IF text.syntax = "strict" THEN Ok(text.data) ELSE Raise("JSONDecodeError")

\* _remove_json_comments on the extracted block: `//.*?$` is removed wherever it
\* stands, so a text with "//" inside a string value loses the rest of that line
remove_json_comments(text) ==
    IF text.syntax \in {"slashes_in_string", "trailing_comma_slashes_in_string"}
    THEN Text("garbage", DataNotObj)
    ELSE text

\* re.sub(r",\s*([}\]])", r"\1", candidate)
without_trailing_commas(text) ==
    IF text.syntax = "trailing_comma" THEN Text("strict", text.data)
    ELSE IF text.syntax = "trailing_comma_single_quoted" THEN Text("single_quoted", text.data)
    ELSE text

\* the two re.sub calls that turn single-quoted keys and values into double-quoted
fixed_both(text) ==
    IF text.syntax = "single_quoted" THEN Text("strict", text.data) ELSE text

\* parse_lenient_json: strict, then without trailing commas, then with fixed quotes
parse_lenient_json(text) ==
    LET candidate == remove_json_comments(text) IN
    IF json_loads(candidate).ok THEN json_loads(candidate)
    ELSE IF json_loads(without_trailing_commas(candidate)).ok
         THEN json_loads(without_trailing_commas(candidate))
         ELSE json_loads(fixed_both(without_trailing_commas(candidate)))

(***************************************************************************)
(* CohereServoPlanner._validate_trajectory and _validate_plan.             *)
(***************************************************************************)
\* sanitize_arm: arm.get(joint, 90) clamped; a non-dict arm raises AttributeError
sanitize_arm(arm) ==
    [shoulder_vertical   |-> clamp(Get90(arm.shoulder_vertical)),
     shoulder_horizontal |-> clamp(Get90(arm.shoulder_horizontal)),
     elbow_vertical      |-> clamp(Get90(arm.elbow_vertical))]

IsDictWp(wp) == wp.t = "obj"

validate_trajectory(data) ==
    IF data.t # "obj" THEN Raise("AttributeError")    \* data.get on a non-dict
    ELSE IF data.waypoints.t # "list" \/ Len(data.waypoints.items) = 0
    THEN Raise("ValueError")
    ELSE LET kept == SelectSeq(data.waypoints.items, IsDictWp)
         IN  IF \E i \in 1..Len(kept) :
                    kept[i].left_arm.t = "notdict" \/ kept[i].right_arm.t = "notdict"
             THEN Raise("AttributeError")             \* arm.get on a non-dict
             ELSE IF Len(kept) = 0 THEN Raise("ValueError")
             ELSE Ok([i \in 1..Len(kept) |->
                        [left_arm  |-> sanitize_arm(kept[i].left_arm),
                         right_arm |-> sanitize_arm(kept[i].right_arm)]])

\* the reasoning map after the setdefault calls: "" for every key the reply omitted
ReasoningOf(why) ==
    IF why.t = "absent"
    THEN [k \in ReasoningKeys |->
            IF k = "movement" THEN "Deterministic fallback reasoning." ELSE ""]
    ELSE [k \in ReasoningKeys |-> IF k \in why.present THEN "text" ELSE ""]

validate_plan(data) ==
    IF data.t # "obj" THEN Raise("TypeError")         \* data[arm] = {} on a non-dict
    ELSE IF data.left_arm.t = "notdict" \/ data.right_arm.t = "notdict"
    THEN Raise("AttributeError")                      \* .get on a non-dict arm
    ELSE IF data.reasoning.t = "notdict"
    THEN Raise("AttributeError")                      \* .setdefault on a non-dict
    ELSE Ok([left_arm  |-> sanitize_arm(data.left_arm),
             right_arm |-> sanitize_arm(data.right_arm),
             reasoning |-> ReasoningOf(data.reasoning)])

(***************************************************************************)
(* RobotControlGenerator._calculate_3d_targets: positions in tenths of a   *)
(* metre (the orientation angles are not read by the servo planner).       *)
(***************************************************************************)
left_base == [x |-> 3, y |-> 2, z |-> 12]
right_base == [x |-> 3, y |-> -2, z |-> 12]

calculate_3d_targets(phase) ==
    IF Contains(Lower(phase.name), <<"u","p","p","e","r","c","u","t">>)
    THEN <<[x |-> left_base.x + 2, y |-> left_base.y, z |-> left_base.z + 3],
           [x |-> right_base.x + 4, y |-> right_base.y, z |-> right_base.z + 4]>>
    ELSE IF Contains(Lower(phase.name), <<"f","o","o","t","w","o","r","k">>)
    THEN <<[x |-> left_base.x - 1, y |-> left_base.y + 1, z |-> left_base.z + 1],
           [x |-> right_base.x, y |-> right_base.y - 1, z |-> right_base.z + 1]>>
    ELSE <<left_base, right_base>>

(***************************************************************************)
(* CohereServoPlanner._fallback_plan.                                      *)
(***************************************************************************)
InNameOrCue(phase, k) == Contains(Lower(phase.name), k) \/ Contains(Lower(phase.cue), k)

\* variant: the strike keywords are looked up before the side keywords
infer_roles_strike_first(phase) ==
    IF InNameOrCue(phase, <<"u","p","p","e","r","c","u","t">>) \/ InNameOrCue(phase, <<"h","o","o","k">>)
            \/ InNameOrCue(phase, <<"p","u","n","c","h">>)
    THEN <<FALSE, TRUE>>
    ELSE IF InNameOrCue(phase, <<"l","e","f","t">>)
    THEN <<TRUE, FALSE>>
    ELSE IF InNameOrCue(phase, <<"r","i","g","h","t">>) \/ InNameOrCue(phase, <<"c","r","o","s","s">>)
    THEN <<FALSE, TRUE>>
    ELSE <<FALSE, FALSE>>

\* the if / elif / elif chain that infers the active arm: <<left_active, right_active>>
infer_roles(phase) ==
    IF InNameOrCue(phase, <<"l","e","f","t">>) \/ InNameOrCue(phase, <<"j","a","b"," ","(","l","e","f","t",")">>)
    THEN <<TRUE, FALSE>>
    ELSE IF InNameOrCue(phase, <<"r","i","g","h","t">>) \/ InNameOrCue(phase, <<"c","r","o","s","s">>)
            \/ InNameOrCue(phase, <<"j","a","b"," ","(","r","i","g","h","t",")">>)
    THEN <<FALSE, TRUE>>
    ELSE IF InNameOrCue(phase, <<"u","p","p","e","r","c","u","t">>) \/ InNameOrCue(phase, <<"h","o","o","k">>)
            \/ InNameOrCue(phase, <<"p","u","n","c","h">>)
    THEN <<FALSE, TRUE>>
    ELSE <<FALSE, FALSE>>

\* (phase.velocity_profile or "medium"), (phase.force_profile or "controlled");
\* None and "" are the empty string here
vel_of(phase) == IF phase.velocity_profile = "" THEN "medium" ELSE phase.velocity_profile
force_of(phase) == IF phase.force_profile = "" THEN "controlled" ELSE phase.force_profile

\* variant: only the explosive velocity and the maximum force give 1.2
power_scale_explosive_only(phase) ==
    IF vel_of(phase) \in {"explosive"} \/ force_of(phase) \in {"maximum"} THEN 12
    ELSE IF vel_of(phase) \in {"slow"} /\ force_of(phase) \in {"minimal"} THEN 9
    ELSE 10

\* power_scale, in tenths
power_scale(phase) ==
    IF vel_of(phase) \in {"explosive", "fast"} \/ force_of(phase) \in {"maximum"} THEN 12
    ELSE IF vel_of(phase) \in {"slow"} /\ force_of(phase) \in {"minimal"} THEN 9
    ELSE 10

\* variant: the guard constant of the right side (120) used for both sides
map_arm_one_guard(tgt, side, active, ps) ==
    LET sv0 == clamp(Num(90 + (tgt.z - 12) * (IF active THEN 22 ELSE 18)))
        sh0 == IF side = "left" THEN clamp(Num(90 - tgt.y * 30))
                                ELSE clamp(Num(90 + (-tgt.y) * 30))
        ev0 == clamp(Num(120 - (tgt.x - 3) * (IF active THEN 36 ELSE 24)))
    IN  IF active
        THEN [shoulder_vertical   |-> clamp(Frac(sv0 * ps, 10)),
              shoulder_horizontal |-> sh0,
              elbow_vertical      |-> clamp(Num(ev0 - RoundHalfEven((ps - 10) * 10, 10)))]
        ELSE [shoulder_vertical   |-> sv0,
              shoulder_horizontal |-> clamp(Num((sh0 + 120) \div 2)),
              elbow_vertical      |-> clamp(Num((ev0 + 110) \div 2))]

\* map_arm(tgt, side, active) with the enclosing power_scale ps (tenths)
map_arm(tgt, side, active, ps) ==
    LET sv0 == clamp(Num(90 + (tgt.z - 12) * (IF active THEN 22 ELSE 18)))
        sh0 == IF side = "left" THEN clamp(Num(90 - tgt.y * 30))
                                ELSE clamp(Num(90 + (-tgt.y) * 30))
        ev0 == clamp(Num(120 - (tgt.x - 3) * (IF active THEN 36 ELSE 24)))
    IN  IF active
        THEN [shoulder_vertical   |-> clamp(Frac(sv0 * ps, 10)),
              shoulder_horizontal |-> sh0,
              elbow_vertical      |-> clamp(Num(ev0 - RoundHalfEven((ps - 10) * 10, 10)))]
        ELSE [shoulder_vertical   |-> sv0,
              shoulder_horizontal |->
                  clamp(Num((sh0 + (IF side = "left" THEN 60 ELSE 120)) \div 2)),
              elbow_vertical      |-> clamp(Num((ev0 + 110) \div 2))]

FallbackReasoning == [k \in ReasoningKeys |-> "heuristic"]

fallback_plan(phase, left_target, right_target) ==
    LET roles == infer_roles(phase)
        left_active == roles[1]
        right_active == roles[2]
        ps == power_scale(phase)
    IN  [left_arm  |-> map_arm(left_target, "left", left_active /\ ~right_active, ps),
         right_arm |-> map_arm(right_target, "right", right_active /\ ~left_active, ps),
         reasoning |-> FallbackReasoning]

(***************************************************************************)
(* CohereServoPlanner._fallback_trajectory.                                *)
(***************************************************************************)
\* dur = getattr(phase, "duration_ms", 500) or 500
dur_of(phase) == IF phase.duration_ms = 0 THEN 500 ELSE phase.duration_ms

\* variant: the velocity profile is not consulted
waypoint_count_by_duration(phase) == Max(3, Min(7, RoundHalfEven(dur_of(phase), 200)))

\* the number n of waypoints
waypoint_count(phase) ==
    LET n0 == Max(3, Min(7, RoundHalfEven(dur_of(phase), 200)))
    IN  IF vel_of(phase) \in {"explosive"} THEN Max(3, Min(n0, 4))
        ELSE IF vel_of(phase) \in {"slow"} THEN Min(7, Max(n0, 5))
        ELSE n0

\* interp(a0, a1, t) with t = i / n
interp(a0, a1, i, n) == clamp(Num(RoundHalfEven(a0 * n + (a1 - a0) * i, n)))

neutral == [shoulder_vertical |-> 90, shoulder_horizontal |-> 90, elbow_vertical |-> 90]

interp_arm(target, i, n) ==
    [shoulder_vertical   |-> interp(neutral.shoulder_vertical, target.shoulder_vertical, i, n),
     shoulder_horizontal |-> interp(neutral.shoulder_horizontal, target.shoulder_horizontal, i, n),
     elbow_vertical      |-> interp(neutral.elbow_vertical, target.elbow_vertical, i, n)]

fallback_trajectory(phase, left_target, right_target) ==
    LET single == fallback_plan(phase, left_target, right_target)
        n == waypoint_count(phase)
    IN  [i \in 1..n |-> [left_arm  |-> interp_arm(single.left_arm, i, n),
                         right_arm |-> interp_arm(single.right_arm, i, n)]]

(***************************************************************************)
(* CohereServoPlanner.plan_servo_positions / plan_servo_trajectory.        *)
(* `reply` is what the remote service does if it is called.  The result    *)
(* records whether the remote call was made, where the returned value      *)
(* came from and whether an exception left the method.                     *)
(***************************************************************************)
CallResult(attempted, source, value) ==
    [attempted |-> attempted, source |-> source, raised |-> FALSE, value |-> value]
Propagated(attempted) ==
    [attempted |-> attempted, source |-> "none", raised |-> TRUE, value |-> <<>>]

\* self.client.chat(...): a transport failure raises, otherwise response.text
chat(reply) ==
    IF reply.net = "ok" THEN Ok(reply.text)
    ELSE Raise(IF reply.net = "timeout" THEN "TimeoutError" ELSE "ConnectionError")

\* the try block of plan_servo_positions: chat, parse_lenient_json, _validate_plan
try_positions(reply) ==
    IF ~chat(reply).ok THEN chat(reply)
    ELSE IF ~parse_lenient_json(chat(reply).val).ok
    THEN parse_lenient_json(chat(reply).val)
    ELSE validate_plan(parse_lenient_json(chat(reply).val).val)

\* the try block of plan_servo_trajectory: chat, parse_lenient_json, _validate_trajectory
try_trajectory(reply) ==
    IF ~chat(reply).ok THEN chat(reply)
    ELSE IF ~parse_lenient_json(chat(reply).val).ok
    THEN parse_lenient_json(chat(reply).val)
    ELSE validate_trajectory(parse_lenient_json(chat(reply).val).val)

\* variant: `except (ValueError, json.JSONDecodeError):`
caught_value_errors(exc) == exc \in {"ValueError", "JSONDecodeError"}

\* `except Exception as e:` -- every exception class of the try block is caught
caught(exc) == TRUE

\* try: return <tried>  except Exception: return <fallback>
except_fallback(tried, fallback) ==
    IF tried.ok THEN CallResult(TRUE, "remote", tried.val)
    ELSE IF caught(tried.exc) THEN CallResult(TRUE, "fallback", fallback)
    ELSE Propagated(TRUE)

plan_servo_positions(has_client, phase, left_target, right_target, reply) ==
    IF ~has_client
    THEN CallResult(FALSE, "fallback", fallback_plan(phase, left_target, right_target))
    ELSE except_fallback(try_positions(reply),
                         fallback_plan(phase, left_target, right_target))

plan_servo_trajectory(has_client, phase, left_target, right_target, reply) ==
    IF ~has_client
    THEN CallResult(FALSE, "fallback", fallback_trajectory(phase, left_target, right_target))
    ELSE except_fallback(try_trajectory(reply),
                         fallback_trajectory(phase, left_target, right_target))

(***************************************************************************)
(* Inputs: phases and replies of the remote service.                       *)
(***************************************************************************)

Phase(name, cue, vel, force, dur) ==
    [name |-> name, cue |-> cue, velocity_profile |-> vel, force_profile |-> force,
     duration_ms |-> dur]

Ph_uppercut == Phase(<<"b","a","s","i","c","_","u","p","p","e","r","c","u","t">>, <<>>, "explosive", "maximum", 150)
Ph_footwork == Phase(<<"l","e","f","t","_","f","o","o","t","w","o","r","k">>, <<>>, "slow", "minimal", 1300)
Ph_cross == Phase(<<"r","i","g","h","t","_","c","r","o","s","s">>, <<>>, "fast", "controlled", 900)
Ph_guard == Phase(<<"g","u","a","r","d">>, <<>>, "medium", "controlled", 0)
Ph_guard_long == Phase(<<"g","u","a","r","d">>, <<"g","o"," ","l","e","f","t">>, "", "", 2000)
Ph_hook == Phase(<<"H","o","o","k">>, <<>>, "slow", "controlled", 700)

\* the velocity and force profiles of DOMAIN_PHASE_MAPPINGS, on the right cross
Velocities == {"slow", "medium", "fast", "explosive", "precise", "steady"}
Forces == {"minimal", "controlled", "building", "maximum"}
CrossPhases == {Phase(Ph_cross.name, <<>>, v, f, 900) : v \in Velocities, f \in Forces}

OraclePhases ==
    {Ph_uppercut, Ph_footwork, Ph_cross, Ph_guard, Ph_guard_long, Ph_hook,
     \* long and short phases of each velocity
     Phase(<<"k","i","c","k">>, <<>>, "explosive", "maximum", 2000),
     Phase(<<"r","e","s","e","t">>, <<>>, "slow", "minimal", 2100),
     Phase(<<"s","e","t","u","p">>, <<>>, "slow", "minimal", 100),
     Phase(<<"f","o","l","l","o","w">>, <<>>, "medium", "controlled", 1100),
     \* side and strike keywords in the name and in the cue
     Phase(Ph_cross.name, <<"L","e","f","t"," ","f","o","o","t">>, "fast", "controlled", 400),
     Phase(<<"P","u","n","c","h">>, <<"s","n","a","p">>, "fast", "controlled", 400),
     Phase(<<"l","e","f","t","_","h","o","o","k">>, <<>>, "explosive", "maximum", 400),
     Phase(<<"s","t","e","p">>, <<"t","h","e","n"," ","h","o","o","k">>, "medium", "controlled", 400)} \cup CrossPhases

GoodArm == ArmObj(Num(60), Num(120), Num(30))
WildArm == ArmObj(Num(999), Num(-20), NonNumeric)
HalfArm == ArmObj(Absent, Frac(91, 2), Num(0))
LowArm == ArmObj(Num(0), Num(0), Num(0))
HighArm == ArmObj(Num(180), Num(180), Num(180))
SomeReasoning == [t |-> "obj", present |-> {"movement", "left_elbow_vertical"}]

WpList(items) == [t |-> "list", items |-> items]

\* transport failures
R_network_error == Reply("network_error", Text("strict", DataNotObj))
R_timeout == Reply("timeout", Text("strict", DataNotObj))
\* text that no pass of the lenient parser can read
R_unparseable == Reply("ok", Text("garbage", DataNotObj))
\* JSON that is not an object (a list, a number)
R_not_object == Reply("ok", Text("strict", DataNotObj))
\* an object without "waypoints" and without arms
R_empty_object == Reply("ok", Text("strict",
    DataObj(NoWaypoints, ArmAbsent, ArmAbsent, NoReasoning)))
\* "waypoints" is not a list; "reasoning" is not a dict
R_wrong_types == Reply("ok", Text("strict",
    DataObj([t |-> "notlist", items |-> <<>>], GoodArm, GoodArm,
            [t |-> "notdict", present |-> {}])))
\* an empty waypoint list; an arm that is not a dict
R_empty_list == Reply("ok", Text("strict",
    DataObj(WpList(<<>>), ArmNotDict, GoodArm, SomeReasoning)))
\* waypoints none of which is a dict
R_no_dict_waypoint == Reply("ok", Text("strict",
    DataObj(WpList(<<WpNotDict, WpNotDict>>), GoodArm, ArmNotDict, SomeReasoning)))
\* a waypoint whose arm is not a dict
R_bad_arm == Reply("ok", Text("strict",
    DataObj(WpList(<<WpObj(GoodArm, GoodArm), WpObj(ArmNotDict, GoodArm)>>),
            ArmNotDict, ArmNotDict, NoReasoning)))
\* accepted: one waypoint with out-of-range, negative, non-numeric, missing values
R_one_waypoint == Reply("ok", Text("strict",
    DataObj(WpList(<<WpObj(WildArm, HalfArm)>>), WildArm, HalfArm, SomeReasoning)))
\* accepted: three waypoints (one entry that is not a dict is skipped), large jumps
R_three_waypoints == Reply("ok", Text("trailing_comma",
    DataObj(WpList(<<WpObj(HighArm, LowArm), WpNotDict, WpObj(LowArm, HighArm),
                     WpObj(GoodArm, ArmAbsent)>>),
            GoodArm, GoodArm, NoReasoning)))
\* accepted: eight waypoints
R_eight_waypoints == Reply("ok", Text("single_quoted",
    DataObj(WpList(<<WpObj(LowArm, HighArm), WpObj(GoodArm, GoodArm),
                     WpObj(HighArm, LowArm), WpObj(GoodArm, WildArm),
                     WpObj(LowArm, LowArm), WpObj(HalfArm, GoodArm),
                     WpObj(HighArm, HighArm), WpObj(GoodArm, GoodArm)>>),
            LowArm, HighArm, SomeReasoning)))
\* accepted: single quotes and a trailing comma together
R_comma_and_quotes == Reply("ok", Text("trailing_comma_single_quoted",
    DataObj(WpList(<<WpObj(WildArm, HalfArm)>>), WildArm, HalfArm, SomeReasoning)))
\* valid JSON but for a trailing comma before the last brace, with a reasoning text
\* that holds "//" (a URL)
R_comma_and_url == Reply("ok", Text("trailing_comma_slashes_in_string",
    DataObj(WpList(<<WpObj(GoodArm, GoodArm), WpObj(HighArm, LowArm),
                     WpObj(LowArm, HighArm)>>),
            GoodArm, GoodArm, SomeReasoning)))

\* an object with "left_arm" and "reasoning" and no "right_arm"
R_left_arm_only == Reply("ok", Text("strict",
    DataObj(NoWaypoints, GoodArm, ArmAbsent, SomeReasoning)))

Replies == {R_network_error, R_timeout, R_unparseable, R_not_object, R_empty_object,
            R_wrong_types, R_empty_list, R_no_dict_waypoint, R_bad_arm,
            R_one_waypoint, R_three_waypoints, R_eight_waypoints,
            R_comma_and_quotes, R_comma_and_url, R_left_arm_only}

NoCall == [method |-> "none", reply |-> R_network_error,
           result |-> CallResult(FALSE, "none", <<>>)]
NoPlan == [phases |-> <<>>, max_velocity_hint |-> 0]

(***************************************************************************)
(* Specification SpecOracle: calls of the planner's two public methods on  *)
(* one phase, with every reply of the remote service.                      *)
(***************************************************************************)
SynthIdle ==
    /\ plan = NoPlan /\ client = FALSE /\ pc = "unused" /\ max_delta = 0
    /\ last_angles = <<>> /\ phase_idx = 0 /\ waypoints = <<>> /\ wp_idx = 0
    /\ raw = <<>> /\ sequence = <<>> /\ seq_counter = 0 /\ delta_writes = 0
    /\ traj_source = "none" /\ returned = <<>>

OracleIdle == o_phase = Ph_guard /\ o_client = FALSE /\ o_call = NoCall

MapIdle == m_step = <<>> /\ m_domain = "general" /\ m_phase = <<>>

NoGuide == [domain |-> "general", steps |-> <<>>]
NoExecutionPlan == [phases |-> <<>>, total_duration_ms |-> 0, complexity_score |-> 0,
                    constraints |-> <<>>]
CompileIdle ==
    /\ guide = NoGuide /\ threshold = 0 /\ c_pc = "unused" /\ c_error = ""
    /\ c_score = <<0, 1>> /\ c_plan = NoExecutionPlan /\ c_built = <<>> /\ c_writes = 0
    /\ v_pc = "unused" /\ warnings = <<>>

ThreadsIdle == calls = <<>> /\ dicts = <<>> /\ overlap = FALSE

SessionsIdle ==
    /\ runs = <<>> /\ active_sessions = <<>> /\ posted_sequence_sessions = {}
    /\ output_files = <<>> /\ post_threads = <<>>

ConstraintsIdle == g_domain = "general" /\ g_score = <<0, 1>> /\ g_constraints = <<>>

PostIdle ==
    /\ p_mode = "" /\ p_payload = <<>> /\ p_pc = "unused" /\ p_idx = 0 /\ angles = <<>>
    /\ posts = <<>> /\ p_log = <<>>

OracleInit ==
    /\ o_phase \in OraclePhases
    /\ o_client \in BOOLEAN
    /\ o_call = NoCall
    /\ SynthIdle /\ MapIdle /\ CompileIdle /\ ThreadsIdle /\ PostIdle /\ ConstraintsIdle /\ SessionsIdle

CallPlanServoPositions ==
    \E reply \in Replies :
        LET t == calculate_3d_targets(o_phase) IN
        /\ o_call' = [method |-> "positions", reply |-> reply,
                      result |-> plan_servo_positions(o_client, o_phase, t[1], t[2], reply)]
        /\ UNCHANGED <<o_phase, o_client, synthVars, mapVars, compileVars, threadVars, postVars, constraintVars, sessionVars>>

CallPlanServoTrajectory ==
    \E reply \in Replies :
        LET t == calculate_3d_targets(o_phase) IN
        /\ o_call' = [method |-> "trajectory", reply |-> reply,
                      result |-> plan_servo_trajectory(o_client, o_phase, t[1], t[2], reply)]
        /\ UNCHANGED <<o_phase, o_client, synthVars, mapVars, compileVars, threadVars, postVars, constraintVars, sessionVars>>

OracleNext == CallPlanServoPositions \/ CallPlanServoTrajectory

SpecOracle == OracleInit /\ [][OracleNext]_vars

(***************************************************************************)
(* Properties of the planner's two public methods.                         *)
(***************************************************************************)
\* the replies that are a network error, a timeout, unparseable text, JSON
\* that is not an object, arms or waypoints of the wrong type, or an empty
\* waypoint list, for each method
NamedFailures(method) ==
    {R_network_error, R_timeout, R_unparseable, R_not_object, R_bad_arm}
    \cup (IF method = "trajectory"
          THEN {R_wrong_types, R_empty_list, R_no_dict_waypoint}
          ELSE {R_empty_list, R_no_dict_waypoint})

\* C5: plan_servo_positions and plan_servo_trajectory never raise to the
\* caller; with a client configured the remote call is attempted, and on a
\* network error, a timeout, unparseable text, JSON that is not an object,
\* arms or waypoints of the wrong type or an empty waypoint list the call
\* returns the deterministic fallback result; with no client configured the
\* fallback result is returned and no remote call is made.
NeverRaisesFallsBack ==
    o_call.method # "none" =>
        LET t == calculate_3d_targets(o_phase)
            fb == IF o_call.method = "positions"
                  THEN fallback_plan(o_phase, t[1], t[2])
                  ELSE fallback_trajectory(o_phase, t[1], t[2])
        IN  /\ ~o_call.result.raised
            /\ o_call.result.attempted = o_client
            /\ (~o_client \/ o_call.reply \in NamedFailures(o_call.method)) =>
                   /\ o_call.result.source = "fallback"
                   /\ o_call.result.value = fb

\* a trajectory call with a client whose reply has an arm of the wrong type:
\* the call made the remote attempt and returned the fallback trajectory
NeverRaisesFallsBackWitness ==
    /\ o_client
    /\ o_call.method = "trajectory"
    /\ o_call.reply = R_bad_arm
    /\ o_call.result.attempted
    /\ o_call.result.source = "fallback"
    /\ Len(o_call.result.value) >= 3

\* C10: for every phase and every outcome (remote reply accepted, or
\* fallback used), plan_servo_trajectory returns a list of at least 3 and at
\* most 7 waypoints.
TrajectoryLengthBounded ==
    (o_call.method = "trajectory" /\ ~o_call.result.raised) =>
        Len(o_call.result.value) \in 3..7

Angles(sv, sh, ev) ==
    [shoulder_vertical |-> sv, shoulder_horizontal |-> sh, elbow_vertical |-> ev]

\* the call returned the reply's own angles, left and right
ReturnedRemote(left, right) ==
    /\ o_call.result.source = "remote"
    /\ o_call.result.value.left_arm = left
    /\ o_call.result.value.right_arm = right

\* C11: the lenient parser tries a strict parse, then a parse after removing
\* trailing commas before closing brackets, then a parse after converting
\* single-quoted keys and values, and returns the first success; a remote
\* response that is valid JSON except for a trailing comma before a closing
\* brace yields the remote angles and the fallback is not invoked.
LenientParseRecovers ==
    (o_call.method = "positions" /\ o_client /\ o_call.reply.net = "ok") =>
        LET syntax == o_call.reply.text.syntax IN
        /\ o_call.reply = R_one_waypoint =>
               ReturnedRemote(Angles(180, 0, 90), Angles(90, 46, 0))
        /\ (syntax \in {"trailing_comma", "trailing_comma_slashes_in_string"}
              /\ o_call.reply.text.data.left_arm = GoodArm
              /\ o_call.reply.text.data.right_arm = GoodArm) =>
               ReturnedRemote(Angles(60, 120, 30), Angles(60, 120, 30))
        /\ o_call.reply = R_eight_waypoints =>
               ReturnedRemote(Angles(0, 0, 0), Angles(180, 180, 180))
        /\ o_call.reply = R_comma_and_quotes =>
               ReturnedRemote(Angles(180, 0, 90), Angles(90, 46, 0))
        /\ syntax = "garbage" => o_call.result.source = "fallback"

\* a fallback result of plan_servo_positions for the phase named right_cross
\* whose cue is empty; its targets are the neutral ones, so before the guard
\* pull the left shoulder_horizontal is 90 - 0.2 * 300 = 30 and both
\* elbow_vertical are 120
RightCrossFallback ==
    /\ o_call.method = "positions"
    /\ o_call.result.source = "fallback"
    /\ o_phase.name = <<"r","i","g","h","t","_","c","r","o","s","s">>
    /\ o_phase.cue = <<>>

\* the right arm was mapped as the active arm: its shoulder_horizontal is
\* the unpulled 90 + 0.2 * 300 and its elbow_vertical is not pulled to 110
RightArmActive ==
    /\ o_call.result.value.right_arm.shoulder_horizontal = 150
    /\ o_call.result.value.right_arm.elbow_vertical > 115

\* C12 as stated: for a phase named right_cross whose cue names no side the
\* fallback treats the right arm as active and the left as inactive, and
\* the left arm's shoulder_horizontal is halfway toward 120 and its
\* elbow_vertical halfway toward 110.
LeftGuardToward120 ==
    RightCrossFallback =>
        /\ RightArmActive
        /\ o_call.result.value.left_arm.shoulder_horizontal = (30 + 120) \div 2
        /\ o_call.result.value.left_arm.elbow_vertical = (120 + 110) \div 2

\* C12 amended: as C12, with the left arm's shoulder_horizontal halfway
\* toward the left guard constant 60 (120 is the right arm's constant).
LeftGuardToward60 ==
    RightCrossFallback =>
        /\ RightArmActive
        /\ o_call.result.value.left_arm.shoulder_horizontal = (30 + 60) \div 2
        /\ o_call.result.value.left_arm.elbow_vertical = (120 + 110) \div 2
        /\ o_call.result.value.left_arm.shoulder_vertical = 90

\* the fallback plan of right_cross was returned to a caller without client
LeftGuardWitness ==
    /\ RightCrossFallback
    /\ ~o_client
    /\ o_call.result.value.left_arm.shoulder_horizontal = 45

(***************************************************************************)
(* RobotControlGenerator.generate_minimal_servo_sequence, one step per     *)
(* loop iteration.                                                         *)
(***************************************************************************)
JointIds == <<"left_shoulder_vertical", "left_shoulder_horizontal", "left_elbow_vertical",
              "right_shoulder_vertical", "right_shoulder_horizontal", "right_elbow_vertical">>
JointIdSet == {JointIds[i] : i \in 1..Len(JointIds)}

\* mv = getattr(plan.constraints, "max_velocity_hint", 0.8) or 0.8   (tenths)
mv_of(p) == IF p.max_velocity_hint = 0 THEN 8 ELSE p.max_velocity_hint

\* variant: the sum rounded to the nearest integer instead of truncated
compute_max_delta_rounded(mv) == RoundHalfEven(100 + Max(0, Min(10, mv)) * 35, 10)

\* max_delta = int(10 + (max(0.0, min(1.0, mv)) * 35))
compute_max_delta(mv) == (100 + Max(0, Min(10, mv)) * 35) \div 10

\* last_angles at the start of a call
initial_last_angles == [j \in JointIdSet |-> 90]

\* variant: a full step of md towards the target, even past it
smooth_full_step(target, prev, md) ==
    IF target > prev THEN prev + md
    ELSE IF target < prev THEN prev - md
    ELSE target

\* variant: only upward moves are limited
smooth_upward_only(target, prev, md) ==
    IF target > prev + md THEN prev + md ELSE target

\* variant: a target within max_delta is approached by half the distance
smooth_half_way(target, prev, md) ==
    IF target > prev + md THEN prev + md
    ELSE IF target < prev - md THEN prev - md
    ELSE (target + prev) \div 2

\* smooth(target, prev) with the enclosing max_delta md
smooth(target, prev, md) ==
    IF target > prev + md THEN prev + md
    ELSE IF target < prev - md THEN prev - md
    ELSE target

\* raw = {...}: the six clamped angles of waypoint wp
raw_of(wp) ==
    [j \in JointIdSet |->
        CASE j = "left_shoulder_vertical"    -> clamp_int(Num(wp.left_arm.shoulder_vertical))
          [] j = "left_shoulder_horizontal"  -> clamp_int(Num(wp.left_arm.shoulder_horizontal))
          [] j = "left_elbow_vertical"       -> clamp_int(Num(wp.left_arm.elbow_vertical))
          [] j = "right_shoulder_vertical"   -> clamp_int(Num(wp.right_arm.shoulder_vertical))
          [] j = "right_shoulder_horizontal" -> clamp_int(Num(wp.right_arm.shoulder_horizontal))
          [] OTHER                           -> clamp_int(Num(wp.right_arm.elbow_vertical))]

\* smoothed = {k: smooth(v, last_angles[k]) for k, v in raw.items()}
smoothed_of(r, last, md) == [j \in JointIdSet |-> smooth(r[j], last[j], md)]

\* variant: seq_num counted from 0
command_group_from_zero(n, smoothed) ==
    [seq_num |-> n - 1,
     commands |-> [i \in 1..Len(JointIds) |-> [id |-> JointIds[i], deg |-> smoothed[JointIds[i]]]]]

\* {"seq_num": seq_counter, "commands": [...]}
command_group(n, smoothed) ==
    [seq_num |-> n,
     commands |-> [i \in 1..Len(JointIds) |-> [id |-> JointIds[i], deg |-> smoothed[JointIds[i]]]]]

MaxPhases == 2
SynthPhases == {Ph_uppercut, Ph_footwork}
MvHints == {-5, 0, 1, 8, 15}
PlanInputs ==
    {[phases |-> ps, max_velocity_hint |-> mv] :
        ps \in UNION {[1..n -> SynthPhases] : n \in 1..MaxPhases}, mv \in MvHints}

SynthInit ==
    /\ plan \in PlanInputs
    /\ client \in BOOLEAN
    /\ pc = "start"
    /\ max_delta = 0 /\ last_angles = <<>> /\ phase_idx = 0 /\ waypoints = <<>>
    /\ wp_idx = 0 /\ raw = <<>> /\ sequence = <<>> /\ seq_counter = 0
    /\ delta_writes = 0 /\ traj_source = "none" /\ returned = <<>>
    /\ OracleIdle /\ MapIdle /\ CompileIdle /\ ThreadsIdle /\ PostIdle /\ ConstraintsIdle /\ SessionsIdle

\* lines 216-247: the locals before the loops
Start ==
    /\ pc = "start"
    /\ max_delta' = compute_max_delta(mv_of(plan))
    /\ delta_writes' = delta_writes + 1
    /\ last_angles' = initial_last_angles
    /\ sequence' = <<>>
    /\ seq_counter' = 1
    /\ phase_idx' = 1
    /\ pc' = "phase"
    /\ UNCHANGED <<plan, client, waypoints, wp_idx, raw, traj_source, returned, oracleVars, mapVars,
                   compileVars, threadVars, postVars, constraintVars, sessionVars>>

\* lines 248-257: the next phase's targets and trajectory
NextPhase ==
    /\ pc = "phase"
    /\ phase_idx <= Len(plan.phases)
    /\ \E reply \in Replies :
         LET t == calculate_3d_targets(plan.phases[phase_idx])
             res == plan_servo_trajectory(client, plan.phases[phase_idx], t[1], t[2], reply)
         IN  IF res.raised
             THEN /\ pc' = "raised"
                  /\ UNCHANGED <<waypoints, wp_idx, traj_source, phase_idx, returned, constraintVars, sessionVars>>
             ELSE /\ waypoints' = res.value
                  /\ traj_source' = res.source
                  /\ returned' = Append(returned, res.value)
                  /\ wp_idx' = 1
                  /\ IF Len(res.value) = 0
                     THEN pc' = "phase" /\ phase_idx' = phase_idx + 1
                     ELSE pc' = "waypoint" /\ UNCHANGED phase_idx
    /\ UNCHANGED <<plan, client, max_delta, delta_writes, last_angles, raw, sequence,
                   seq_counter, oracleVars, mapVars,
                   compileVars, threadVars, postVars, constraintVars, sessionVars>>

\* lines 259-284: one waypoint becomes one command group
EmitGroup ==
    /\ pc = "waypoint"
    /\ wp_idx <= Len(waypoints)
    /\ LET r == raw_of(waypoints[wp_idx])
           smoothed == smoothed_of(r, last_angles, max_delta)
       IN  /\ raw' = r
           /\ last_angles' = smoothed
           /\ sequence' = Append(sequence, command_group(seq_counter, smoothed))
           /\ seq_counter' = seq_counter + 1
    /\ wp_idx' = wp_idx + 1
    /\ IF wp_idx = Len(waypoints)
       THEN pc' = "phase" /\ phase_idx' = phase_idx + 1
       ELSE pc' = "waypoint" /\ UNCHANGED phase_idx
    /\ UNCHANGED <<plan, client, max_delta, delta_writes, waypoints, traj_source, returned, oracleVars, mapVars,
                   compileVars, threadVars, postVars, constraintVars, sessionVars>>

\* line 286: return {"skill": ..., "sequence": sequence}
Return ==
    /\ pc = "phase"
    /\ phase_idx > Len(plan.phases)
    /\ pc' = "done"
    /\ UNCHANGED <<plan, client, max_delta, delta_writes, last_angles, phase_idx, waypoints,
                   wp_idx, raw, sequence, seq_counter, traj_source, returned, oracleVars, mapVars,
                   compileVars, threadVars, postVars, constraintVars, sessionVars>>

SynthNext == Start \/ NextPhase \/ EmitGroup \/ Return

SpecSynth == SynthInit /\ [][SynthNext]_vars

(***************************************************************************)
(* Properties of the synthesized sequence.                                 *)
(***************************************************************************)
deg_of(g, c) == sequence[g].commands[c].deg
prev_deg_of(g, c) == IF g = 1 THEN 90 ELSE sequence[g - 1].commands[c].deg

\* C1: whatever plan is given and whatever trajectory the planner returned
\* (remote or fallback, from replies with out-of-range, negative, non-numeric
\* or missing joint values), every deg of every command group in the
\* sequence is an integer in [0, 180].
DegInRange ==
    \A g \in 1..Len(sequence) :
        /\ Len(sequence[g].commands) = Len(JointIds)
        /\ \A c \in 1..Len(sequence[g].commands) : deg_of(g, c) \in 0..180

\* a finished call whose last trajectory is the accepted remote reply that
\* carried 999, -20, a non-number and a missing joint
DegInRangeWitness ==
    /\ pc = "done"
    /\ traj_source = "remote"
    /\ waypoints = try_trajectory(R_one_waypoint).val
    /\ Len(sequence) >= 1

\* C2: for every joint and every pair of consecutive command groups of the
\* sequence, the pair across a phase boundary included, and for the first
\* group against the 90 degree baseline, the absolute change in degrees is at
\* most max_delta.
DeltaBounded ==
    \A g \in 1..Len(sequence) :
        \A c \in 1..Len(sequence[g].commands) :
            Abs(deg_of(g, c) - prev_deg_of(g, c)) <= max_delta

\* a finished two-phase call in which a joint moved by exactly max_delta from
\* the last group of the first phase to the first group of the second
DeltaBoundedWitness ==
    /\ pc = "done"
    /\ Len(plan.phases) = 2
    /\ Len(waypoints) >= 1
    /\ Len(sequence) > Len(waypoints)
    /\ LET b == Len(sequence) - Len(waypoints) + 1 IN
        \E c \in 1..Len(JointIds) :
            /\ Abs(deg_of(b, c) - prev_deg_of(b, c)) = max_delta
            /\ raw_of(waypoints[1])[JointIds[c]] # deg_of(b, c)

\* the hint the call reads, in tenths, limited to [0, 1]
hint_limited(h) == IF h < 0 THEN 0 ELSE IF h > 10 THEN 10 ELSE h

\* C6 as stated: for every max_velocity_hint, 0, negative values and values
\* above 1 included, max_delta is 10 + 35 * clamp(max_velocity_hint, 0, 1)
\* rounded to the nearest integer, and it is computed once per call.
MaxDeltaIsRounded ==
    pc \in {"phase", "waypoint", "done"} =>
        /\ delta_writes = 1
        /\ LET x == 100 + 35 * hint_limited(plan.max_velocity_hint) IN
            /\ 2 * Abs(10 * max_delta - x) <= 10

\* C6 amended: max_delta is 10 + 35 * clamp(mv, 0, 1) truncated to an integer,
\* where mv is max_velocity_hint, or 0.8 when the hint is 0; it is assigned
\* once per call.
MaxDeltaIsTruncated ==
    pc \in {"phase", "waypoint", "done"} =>
        /\ delta_writes = 1
        /\ LET h == plan.max_velocity_hint
               x == 100 + 35 * hint_limited(IF h = 0 THEN 8 ELSE h)
           IN  /\ 10 * max_delta <= x
               /\ x < 10 * (max_delta + 1)

\* a finished call on a plan whose hint is 0: max_delta was 38
MaxDeltaWitness ==
    /\ pc = "done"
    /\ plan.max_velocity_hint = 0
    /\ max_delta = 38
    /\ Len(sequence) >= 1

(***************************************************************************)
(* PhaseMapper (services/compiler.py).  Durations are milliseconds.        *)
(***************************************************************************)
Template(key, duration, velocity, force) ==
    [key |-> key, duration |-> duration, velocity |-> velocity, force |-> force]

\* DOMAIN_PHASE_MAPPINGS, each table in insertion order
MartialArtsTable == <<
    Template(<<"s","e","t","u","p">>, 600, "slow", "minimal"),
    Template(<<"s","t","a","n","c","e">>, 400, "slow", "controlled"),
    Template(<<"p","r","e","l","o","a","d">>, 300, "slow", "building"),
    Template(<<"p","r","e","p","a","r","a","t","i","o","n">>, 500, "slow", "minimal"),
    Template(<<"s","t","r","i","k","e">>, 120, "explosive", "maximum"),
    Template(<<"p","u","n","c","h">>, 150, "explosive", "maximum"),
    Template(<<"k","i","c","k">>, 200, "explosive", "maximum"),
    Template(<<"b","l","o","c","k">>, 180, "fast", "controlled"),
    Template(<<"r","e","t","r","a","c","t">>, 300, "fast", "minimal"),
    Template(<<"r","e","c","o","v","e","r","y">>, 400, "slow", "minimal"),
    Template(<<"r","e","s","e","t">>, 350, "slow", "minimal")>>
SportsTable == <<
    Template(<<"s","e","t","u","p">>, 800, "slow", "minimal"),
    Template(<<"p","r","e","p","a","r","a","t","i","o","n">>, 600, "slow", "controlled"),
    Template(<<"e","x","e","c","u","t","i","o","n">>, 300, "fast", "controlled"),
    Template(<<"f","o","l","l","o","w","_","t","h","r","o","u","g","h">>, 400, "medium", "controlled"),
    Template(<<"r","e","c","o","v","e","r","y">>, 500, "slow", "minimal")>>
MusicTable == <<
    Template(<<"p","r","e","p","a","r","a","t","i","o","n">>, 1000, "slow", "minimal"),
    Template(<<"a","t","t","a","c","k">>, 100, "precise", "controlled"),
    Template(<<"s","u","s","t","a","i","n">>, 2000, "steady", "controlled"),
    Template(<<"r","e","l","e","a","s","e">>, 200, "slow", "minimal")>>

Domains == {"martial_arts", "sports", "music", "crafts", "general"}

\* self.DOMAIN_PHASE_MAPPINGS.get(domain, self.DOMAIN_PHASE_MAPPINGS[MARTIAL_ARTS])
domain_mappings(domain) ==
    CASE domain = "martial_arts" -> MartialArtsTable
      [] domain = "sports" -> SportsTable
      [] domain = "music" -> MusicTable
      [] OTHER -> MartialArtsTable

\* the default template of map_step_to_phase
DefaultTemplate == Template(<<>>, 500, "medium", "controlled")

\* the for loop with break: the first template, from index i on, whose key is in the name
RECURSIVE find_template(_, _, _)
find_template(table, name_lower, i) ==
    IF i > Len(table) THEN DefaultTemplate
    ELSE IF Contains(name_lower, table[i].key) THEN table[i]
    ELSE find_template(table, name_lower, i + 1)

\* base * (1.0 + (difficulty - 1) * 0.2) is computed in IEEE-754 doubles.  Every base of
\* the tables is a multiple of 10, so the exact product is an integer; the double product
\* is that integer, except that 1.0 + 2 * 0.2 is the double just below 1.4 and the
\* products 180 * 1.4 and 350 * 1.4 round to the double just below 252 and 490.
product_below_integer(base, difficulty) ==
    difficulty = 3 /\ base \in {180, 350}

\* adjusted_duration = int(base_duration * duration_multiplier)
adjusted_duration(base, difficulty) ==
    LET exact == (base * (10 + (difficulty - 1) * 2)) \div 10
    IN  IF product_below_integer(base, difficulty) THEN exact - 1 ELSE exact

\* cue_templates.get((velocity, force), "execute with control")
cue_template(velocity, force) ==
    CASE velocity = "slow" /\ force = "minimal" -> <<"r","e","l","a","x"," ","a","n","d"," ","p","o","s","i","t","i","o","n">>
      [] velocity = "slow" /\ force = "controlled" -> <<"s","t","e","a","d","y"," ","a","n","d"," ","c","o","n","t","r","o","l","l","e","d">>
      [] velocity = "medium" /\ force = "controlled" -> <<"s","m","o","o","t","h"," ","e","x","e","c","u","t","i","o","n">>
      [] velocity = "fast" /\ force = "controlled" -> <<"q","u","i","c","k"," ","b","u","t"," ","p","r","e","c","i","s","e">>
      [] velocity = "explosive" /\ force = "maximum" -> <<"e","x","p","l","o","s","i","v","e"," ","p","o","w","e","r">>
      [] velocity = "precise" /\ force = "controlled" -> <<"f","o","c","u","s"," ","o","n"," ","a","c","c","u","r","a","c","y">>
      [] OTHER -> <<"e","x","e","c","u","t","e"," ","w","i","t","h"," ","c","o","n","t","r","o","l">>

\* _generate_cue: the step's own cues when it has any (None and "" are <<>>)
generate_cue(step, template) ==
    IF step.cues # <<>> THEN step.cues ELSE cue_template(template.velocity, template.force)

\* str.replace(" ", "_")
SpacesToUnderscores(str) == [i \in 1..Len(str) |-> IF str[i] = " " THEN "_" ELSE str[i]]

\* PhaseMapper.map_step_to_phase (how, why and citations are copied and never read)
map_step_to_phase(step, domain) ==
    LET name_lower == Lower(step.name)
        template == find_template(domain_mappings(domain), name_lower, 1)
    IN  Phase(SpacesToUnderscores(name_lower),
              generate_cue(step, template),
              template.velocity, template.force,
              adjusted_duration(template.duration, step.difficulty_level))

(***************************************************************************)
(* Specification SpecMap: one call of map_step_to_phase for every step     *)
(* name, difficulty level and domain of the input sets.                    *)
(***************************************************************************)
Step(name, cues, difficulty) == [name |-> name, cues |-> cues, difficulty_level |-> difficulty]

StepNames == {<<"S","t","r","i","k","e">>, <<"B","l","o","c","k">>, <<"R","e","s","e","t"," ","S","t","a","n","c","e">>, <<"S","e","t","u","p">>, <<"P","u","n","c","h"," ","S","t","r","i","k","e">>, <<"W","a","v","e">>, <<"F","o","l","l","o","w"," ","T","h","r","o","u","g","h">>, <<"P","r","e","p","a","r","a","t","i","o","n">>, <<"S","u","s","t","a","i","n">>}
StepCues == {<<>>, <<"d","r","i","v","e"," ","l","e","f","t"," ","h","a","n","d">>}
MinDifficulty == 1
MaxDifficulty == 5

MapInit ==
    /\ m_step \in {Step(n, c, d) : n \in StepNames, c \in StepCues,
                                   d \in MinDifficulty..MaxDifficulty}
    /\ m_domain \in Domains
    /\ m_phase = <<>>
    /\ OracleIdle /\ SynthIdle /\ CompileIdle /\ ThreadsIdle /\ PostIdle /\ ConstraintsIdle /\ SessionsIdle

MapStep ==
    /\ m_phase = <<>>
    /\ m_phase' = map_step_to_phase(m_step, m_domain)
    /\ UNCHANGED <<m_step, m_domain, oracleVars, synthVars, compileVars, threadVars, postVars, constraintVars, sessionVars>>

MapNext == MapStep

SpecMap == MapInit /\ [][MapNext]_vars

(***************************************************************************)
(* Property of the mapped phase.                                           *)
(***************************************************************************)
\* C7: the duration of the phase map_step_to_phase returns is
\* base * (1 + (difficulty_level - 1) * 0.2) truncated to an integer, where
\* base is the duration of the first template, in the order of the domain's
\* table, whose key is a substring of the lowercased step name, or 500 when
\* no key matches (martial_arts, "Strike", difficulty 3: 168 ms).
MappedDurationIsScaledBase ==
    m_phase # <<>> =>
        LET table == domain_mappings(m_domain)
            name_lower == Lower(m_step.name)
            matching == {i \in 1..Len(table) : Contains(name_lower, table[i].key)}
            first == CHOOSE i \in matching : \A j \in matching : i <= j
            base == IF matching = {} THEN 500 ELSE table[first].duration
            tenths == base * (10 + (m_step.difficulty_level - 1) * 2)
        IN  /\ 10 * m_phase.duration_ms <= tenths
            /\ tenths < 10 * (m_phase.duration_ms + 1)

(***************************************************************************)
(* SkillCompiler, ConstraintGenerator (services/compiler.py) and           *)
(* ExecutionPlan (core/models.py).  A score or a hint is a rational        *)
(* <<num, den>> with den > 0; complexity scores are in units of 1/10000,   *)
(* max_velocity_hint and safety margins of the constraints are in 1/100.   *)
(***************************************************************************)
RatGt(a, b) == a[1] * b[2] > b[1] * a[2]
RatEq(a, b) == a[1] * b[2] = b[1] * a[2]

RECURSIVE SumDifficulty(_)
SumDifficulty(steps) ==
    IF steps = <<>> THEN 0 ELSE Head(steps).difficulty_level + SumDifficulty(Tail(steps))

RECURSIVE SumDuration(_)
SumDuration(phases) ==
    IF phases = <<>> THEN 0 ELSE Head(phases).duration_ms + SumDuration(Tail(phases))

\* domain_complexity.get(guide.domain, 0.5), in 1/10000
domain_score(domain) ==
    CASE domain = "martial_arts" -> 12000
      [] domain = "sports" -> 10000
      [] domain = "music" -> 8000
      [] domain = "crafts" -> 6000
      [] domain = "general" -> 5000
      [] OTHER -> 5000

\* SkillCompiler._calculate_complexity_score; dividing by len(guide.steps) = 0 raises
calculate_complexity_score(g) ==
    LET n == Len(g.steps) IN
    IF n = 0 THEN Raise("ZeroDivisionError")
    ELSE Ok(<<5000 * n * n + 8000 * SumDifficulty(g.steps) + domain_score(g.domain) * n, n>>)

\* variant: a buffer of one half
times_1_5(duration) == (duration * 15) \div 10

\* int(phase.duration_ms * 1.2) and int(phase.duration_ms * 0.9)
times_1_2(duration) == (duration * 12) \div 10
times_0_9(duration) == (duration * 9) \div 10

\* variant: the second adjustment starts from the first one's result
optimized_phase_stacked(phases, i) ==
    LET phase == phases[i]
        after_explosive ==
            i > 1 /\ phases[i - 1].velocity_profile = "explosive"
                  /\ phase.velocity_profile = "slow"
        before_explosive ==
            i < Len(phases) /\ phase.velocity_profile = "slow"
                            /\ phases[i + 1].velocity_profile = "explosive"
        d1 == IF after_explosive THEN times_1_2(phase.duration_ms) ELSE phase.duration_ms
        d2 == IF before_explosive THEN times_0_9(d1) ELSE d1
    IN  [phase EXCEPT !.duration_ms = d2]

\* the body of the loop of _optimize_phase_timing for index i
optimized_phase(phases, i) ==
    LET phase == phases[i]
        after_explosive ==
            i > 1 /\ phases[i - 1].velocity_profile = "explosive"
                  /\ phase.velocity_profile = "slow"
        before_explosive ==
            i < Len(phases) /\ phase.velocity_profile = "slow"
                            /\ phases[i + 1].velocity_profile = "explosive"
        d1 == IF after_explosive THEN times_1_2(phase.duration_ms) ELSE phase.duration_ms
        d2 == IF before_explosive THEN times_0_9(phase.duration_ms) ELSE d1
    IN  [phase EXCEPT !.duration_ms = d2]

\* SkillCompiler._optimize_phase_timing
optimize_phase_timing(phases) ==
    IF Len(phases) < 2 THEN phases
    ELSE [i \in 1..Len(phases) |-> optimized_phase(phases, i)]

\* DOMAIN_CONSTRAINTS[...]["max_velocity_hint"], in 1/100, with the default record
base_max_velocity(domain) ==
    CASE domain = "martial_arts" -> 90
      [] domain = "sports" -> 85
      [] domain = "music" -> 60
      [] OTHER -> 90

\* DOMAIN_CONSTRAINTS[...]["safety_margins"], in 1/100
base_safety_margins(domain) ==
    CASE domain = "sports" ->
            [impact_force |-> 75, joint_stress |-> 80, balance_threshold |-> 85]
      [] domain = "music" ->
            [repetitive_strain |-> 60, joint_stress |-> 90, fatigue_threshold |-> 70]
      [] OTHER ->
            [impact_force |-> 80, joint_stress |-> 70, balance_threshold |-> 90]

\* variant: the factor is not capped at 1
complexity_factor_uncapped(score) == <<score[1], 100000 * score[2]>>

\* complexity_factor = min(1.0, complexity_score / 10.0), as a rational
complexity_factor(score) ==
    IF score[1] >= 100000 * score[2] THEN <<1, 1>> ELSE <<score[1], 100000 * score[2]>>

\* ConstraintGenerator.generate_constraints (workspace_hint and joint_limits are copied
\* from the table and never read)
generate_constraints(domain, score) ==
    LET cf == complexity_factor(score)
        margins == base_safety_margins(domain)
    IN  [max_velocity_hint |->
            <<base_max_velocity(domain) * (5 * cf[2] - cf[1]), 5 * cf[2]>>,
         keep_com_in_base |-> TRUE,
         safety_margins |->
            [k \in DOMAIN margins |->
                \* max(0.5, value - complexity_factor * 0.1)
                IF margins[k] * cf[2] - 10 * cf[1] >= 50 * cf[2]
                THEN <<margins[k] * cf[2] - 10 * cf[1], cf[2]>>
                ELSE <<50, 1>>]]

\* variant: the comparison of validate_execution_plan with >=
exceeds_or_equals(score, complexity_threshold) ==
    score[1] >= complexity_threshold * score[2]

\* plan.complexity_score > self.config.complexity_threshold
exceeds(score, complexity_threshold) == RatGt(score, <<complexity_threshold, 1>>)

\* self.total_duration_ms = sum(phase.duration_ms for phase in self.phases)
total_duration_of(phases) == SumDuration(phases)

\* ExecutionPlan.__post_init__: both derived fields are assigned, whatever was passed
post_init(obj) ==
    LET total == total_duration_of(obj.phases) IN
    [obj EXCEPT !.total_duration_ms = total,
                !.complexity_score = <<Len(obj.phases) * 2000 + total, 1>>]

\* ExecutionPlan(skill_name, phases, constraints, provenance, complexity_score=...)
ExecutionPlan(phases, constraints, complexity_score) ==
    post_init([phases |-> phases, constraints |-> constraints,
               total_duration_ms |-> 0, complexity_score |-> complexity_score])

\* variant: `if len(guide.steps) <= 1`
fewer_than_two_steps(g) == Len(g.steps) <= 1

\* `if not guide.steps`
no_steps(g) == Len(g.steps) = 0

\* the try block of compile_skill_guide
try_compile(g) ==
    IF no_steps(g) THEN Raise("CompilationError")
    ELSE IF ~calculate_complexity_score(g).ok THEN calculate_complexity_score(g)
    ELSE LET score == calculate_complexity_score(g).val
             mapped == [i \in 1..Len(g.steps) |-> map_step_to_phase(g.steps[i], g.domain)]
             phases == optimize_phase_timing(mapped)
         IN  Ok(ExecutionPlan(phases, generate_constraints(g.domain, score), score))

\* SkillCompiler.compile_skill_guide: every exception leaves as a CompilationError
compile_skill_guide(g) ==
    IF try_compile(g).ok THEN try_compile(g) ELSE Raise("CompilationError")

\* SkillCompiler.validate_execution_plan
Warning(kind, from, to) == [kind |-> kind, from |-> from, to |-> to]

\* variant: `current.duration_ms <= 200`
RECURSIVE transition_warnings_le(_, _)
transition_warnings_le(phases, i) ==
    IF i > Len(phases) - 1 THEN <<>>
    ELSE (IF /\ phases[i].velocity_profile = "explosive"
             /\ phases[i + 1].velocity_profile = "explosive"
             /\ phases[i].duration_ms <= 200
          THEN <<Warning("rapid_transition", phases[i].name, phases[i + 1].name)>>
          ELSE <<>>) \o transition_warnings_le(phases, i + 1)

RECURSIVE transition_warnings(_, _)
transition_warnings(phases, i) ==
    IF i > Len(phases) - 1 THEN <<>>
    ELSE (IF /\ phases[i].velocity_profile = "explosive"
             /\ phases[i + 1].velocity_profile = "explosive"
             /\ phases[i].duration_ms < 200
          THEN <<Warning("rapid_transition", phases[i].name, phases[i + 1].name)>>
          ELSE <<>>) \o transition_warnings(phases, i + 1)

validate_execution_plan(p, complexity_threshold) ==
    (IF p.total_duration_ms > 10000 THEN <<Warning("too_long", <<>>, <<>>)>> ELSE <<>>)
    \o (IF p.total_duration_ms < 500 THEN <<Warning("too_short", <<>>, <<>>)>> ELSE <<>>)
    \o transition_warnings(p.phases, 1)
    \o (IF exceeds(p.complexity_score, complexity_threshold)
        THEN <<Warning("high_complexity", <<>>, <<>>)>> ELSE <<>>)

(***************************************************************************)
(* Specification SpecCompile: a guide is compiled, the plan is validated,  *)
(* and fields of the plan object (a plain, non-frozen dataclass) are       *)
(* assigned after construction.                                            *)
(***************************************************************************)
MaxSteps == 2
MaxWrites == 1
CompileSteps == {Step(<<"S","t","r","i","k","e">>, <<>>, 3), Step(<<"S","e","t","u","p">>, <<>>, 1),
                 Step(<<"W","a","v","e">>, <<>>, 1), Step(<<"B","l","o","c","k">>, <<>>, 3),
                 Step(<<"S","u","s","t","a","i","n">>, <<>>, MaxDifficulty),
                 Step(<<"P","r","e","l","o","a","d">>, <<>>, 2),
                 Step(<<"K","i","c","k">>, <<>>, MinDifficulty)}
\* guides of three steps whose middle step has two neighbours
LongStepLists ==
    {<<Step(<<"S","t","r","i","k","e">>, <<>>, 3), Step(<<"S","e","t","u","p">>, <<>>, 1),
       Step(<<"K","i","c","k">>, <<>>, MinDifficulty)>>,
     <<Step(<<"K","i","c","k">>, <<>>, MinDifficulty), Step(<<"P","r","e","l","o","a","d">>, <<>>, 2),
       Step(<<"B","l","o","c","k">>, <<>>, 3)>>,
     <<Step(<<"S","e","t","u","p">>, <<>>, 1), Step(<<"P","r","e","l","o","a","d">>, <<>>, 2),
       Step(<<"S","t","r","i","k","e">>, <<>>, 3)>>}
GuideInputs ==
    {[domain |-> d, steps |-> st] :
        d \in Domains,
        st \in UNION {[1..n -> CompileSteps] : n \in 0..MaxSteps} \cup LongStepLists}
\* complexity_threshold values of the configuration, in 1/10000 (5.0 is the default)
Thresholds == {2500, 50000}
WrittenDurations == {100}
WrittenPhaseLists == {<<Ph_uppercut, Ph_uppercut>>}

CompileInit ==
    /\ guide \in GuideInputs
    /\ threshold \in Thresholds
    /\ c_pc = "ready" /\ c_error = "" /\ c_score = <<0, 1>>
    /\ c_plan = NoExecutionPlan /\ c_built = <<>> /\ c_writes = 0
    /\ v_pc = "ready" /\ warnings = <<>>
    /\ OracleIdle /\ SynthIdle /\ MapIdle /\ ThreadsIdle /\ PostIdle /\ ConstraintsIdle /\ SessionsIdle

\* plan = compiler.compile_skill_guide(guide)
Compile ==
    /\ c_pc = "ready"
    /\ LET res == compile_skill_guide(guide) IN
       IF res.ok
       THEN /\ c_pc' = "returned"
            /\ c_plan' = res.val
            /\ c_built' = res.val.phases
            /\ c_score' = calculate_complexity_score(guide).val
            /\ UNCHANGED c_error
       ELSE /\ c_pc' = "raised"
            /\ c_error' = res.exc
            /\ UNCHANGED <<c_plan, c_built, c_score, constraintVars, sessionVars>>
    /\ UNCHANGED <<guide, threshold, c_writes, v_pc, warnings, oracleVars, synthVars, mapVars, threadVars, postVars, constraintVars, sessionVars>>

\* warnings = compiler.validate_execution_plan(plan)
Validate ==
    /\ c_pc = "returned"
    /\ warnings' = validate_execution_plan(c_plan, threshold)
    /\ v_pc' = "returned"
    /\ UNCHANGED <<guide, threshold, c_pc, c_error, c_score, c_plan, c_built, c_writes,
                   oracleVars, synthVars, mapVars, threadVars, postVars, constraintVars, sessionVars>>

\* plan.phases[i].duration_ms = d
SetPhaseDuration ==
    /\ c_pc = "returned"
    /\ c_writes < MaxWrites
    /\ \E i \in 1..Len(c_plan.phases), d \in WrittenDurations :
         c_plan' = [c_plan EXCEPT !.phases[i].duration_ms = d]
    /\ c_writes' = c_writes + 1
    /\ UNCHANGED <<guide, threshold, c_pc, c_error, c_score, c_built, v_pc, warnings,
                   oracleVars, synthVars, mapVars, threadVars, postVars, constraintVars, sessionVars>>

\* plan.phases = ps
ReplacePhases ==
    /\ c_pc = "returned"
    /\ c_writes < MaxWrites
    /\ \E ps \in WrittenPhaseLists : c_plan' = [c_plan EXCEPT !.phases = ps]
    /\ c_writes' = c_writes + 1
    /\ UNCHANGED <<guide, threshold, c_pc, c_error, c_score, c_built, v_pc, warnings,
                   oracleVars, synthVars, mapVars, threadVars, postVars, constraintVars, sessionVars>>

CompileNext == Compile \/ Validate \/ SetPhaseDuration \/ ReplacePhases

SpecCompile == CompileInit /\ [][CompileNext]_vars

(***************************************************************************)
(* Properties of compilation, of the plan object and of validation.        *)
(***************************************************************************)
\* C3: compile_skill_guide raises CompilationError and returns no plan if
\* and only if guide.steps is empty; for every guide with at least one step,
\* of any domain and with difficulty levels in 1..5, it returns an
\* ExecutionPlan.
CompileFailsIffNoSteps ==
    c_pc # "ready" =>
        /\ (c_pc = "raised") <=> (guide.steps = <<>>)
        /\ c_pc = "raised" => (c_error = "CompilationError" /\ c_plan = NoExecutionPlan)
        /\ c_pc = "returned" =>
               /\ c_error = ""
               /\ c_plan # NoExecutionPlan
               /\ Len(c_built) = Len(guide.steps)

\* compile_skill_guide was called on a guide without steps and raised
CompileFailsIffNoStepsWitness ==
    /\ c_pc = "raised"
    /\ guide.steps = <<>>
    /\ c_error = "CompilationError"

\* the sum of duration_ms over the phases the plan holds now
current_sum ==
    LET RECURSIVE upto(_)
        upto(i) == IF i = 0 THEN 0 ELSE c_plan.phases[i].duration_ms + upto(i - 1)
    IN  upto(Len(c_plan.phases))

\* C4: in every state after the plan's construction, also after a phase's
\* duration_ms was changed or the phases list was replaced, total_duration_ms
\* equals the sum of the current phases' duration_ms.
TotalIsSumOfCurrentPhases ==
    c_pc = "returned" => c_plan.total_duration_ms = current_sum

\* C8: the complexity_score of the plan compile_skill_guide returned equals
\* 0.5 * step_count + 0.8 * average(difficulty_level) + domain_weight, with
\* domain_weight 1.2 for martial_arts, 1.0 for sports, 0.8 for music, 0.6 for
\* crafts and 0.5 for general.
PlanCarriesCompilerScore ==
    c_pc = "returned" =>
        LET n == Len(guide.steps)
            difficulty_sum ==
                LET RECURSIVE upto(_)
                    upto(i) == IF i = 0 THEN 0
                               ELSE guide.steps[i].difficulty_level + upto(i - 1)
                IN  upto(n)
            weight == CASE guide.domain = "martial_arts" -> 12
                        [] guide.domain = "sports" -> 10
                        [] guide.domain = "music" -> 8
                        [] guide.domain = "crafts" -> 6
                        [] guide.domain = "general" -> 5
            \* the claimed score times 10 * n
            claimed == 5 * n * n + 8 * difficulty_sum + weight * n
        IN  c_plan.complexity_score[1] * 10 * n
                = claimed * 10000 * c_plan.complexity_score[2]

has_high_complexity_warning ==
    \E i \in 1..Len(warnings) : warnings[i].kind = "high_complexity"

\* C9: validate_execution_plan returns the high-complexity warning if and
\* only if the plan's complexity_score is strictly greater than the
\* configured complexity_threshold; there is no warning when they are equal.
WarnsIffScoreAboveThreshold ==
    v_pc = "returned" =>
        (has_high_complexity_warning
            <=> c_plan.complexity_score[1] > threshold * c_plan.complexity_score[2])

\* validate_execution_plan returned for a plan whose score equals the
\* threshold, without the warning
WarnsIffScoreAboveThresholdWitness ==
    /\ v_pc = "returned"
    /\ c_plan.complexity_score[1] = threshold * c_plan.complexity_score[2]
    /\ ~has_high_complexity_warning

IsRapid(w) == w.kind = "rapid_transition"

\* the indices i of the adjacent pairs (i, i + 1) of phases that are both
\* explosive with the first shorter than 200 ms
RapidPairs(phases) ==
    {i \in 1..(Len(phases) - 1) :
        /\ phases[i].velocity_profile = "explosive"
        /\ phases[i + 1].velocity_profile = "explosive"
        /\ phases[i].duration_ms < 200}

\* the rapid-transition warnings of ws are, in order, one per pair of
\* RapidPairs(phases), each naming the two phases of its pair
OnePerRapidPair(ws, phases) ==
    LET rapid == SelectSeq(ws, IsRapid)
        pairs == RapidPairs(phases)
    IN  /\ Len(rapid) = Cardinality(pairs)
        /\ \A i \in pairs :
               LET k == Cardinality({j \in pairs : j <= i}) IN
               /\ rapid[k].from = phases[i].name
               /\ rapid[k].to = phases[i + 1].name

\* C13: validate_execution_plan returns exactly one rapid-transition
\* warning, naming both phases, for every adjacent pair of phases that are
\* both explosive and whose first lasts less than 200 ms, and no such
\* warning for any other pair, none when the first lasts exactly 200 ms.
\* (A step that assigns nothing to the plan and ends with
\* validate_execution_plan returned is a call of it on that plan.)
RapidWarningPerPair ==
    [][(c_plan' = c_plan /\ c_writes' = c_writes /\ c_pc' = c_pc /\ v_pc' = "returned")
          => OnePerRapidPair(warnings', c_plan.phases)]_vars

\* validate_execution_plan returned a rapid-transition warning for the
\* compiled plan, whose first phase is shorter than 200 ms
RapidWarningWitness ==
    /\ v_pc = "returned"
    /\ c_writes = 0
    /\ Len(c_plan.phases) >= 2
    /\ 1 \in RapidPairs(c_plan.phases)
    /\ \E k \in 1..Len(warnings) :
           /\ IsRapid(warnings[k])
           /\ warnings[k].from = c_plan.phases[1].name
           /\ warnings[k].to = c_plan.phases[2].name

\* all waypoints returned so far, phase after phase
RECURSIVE flattened(_)
flattened(trajectories) ==
    IF trajectories = <<>> THEN <<>>
    ELSE Head(trajectories) \o flattened(Tail(trajectories))

\* the angle of waypoint wp for the c-th joint id, left arm first
waypoint_angle(wp, c) ==
    LET arm == IF c <= 3 THEN wp.left_arm ELSE wp.right_arm
        j == ((c - 1) % 3) + 1
    IN  IF j = 1 THEN arm.shoulder_vertical
        ELSE IF j = 2 THEN arm.shoulder_horizontal
        ELSE arm.elbow_vertical

\* group g was made from waypoint wp: each deg is the waypoint's angle, or the
\* previous deg moved by max_delta towards it when it is further away
MadeFrom(g, wp) ==
    \A c \in 1..Len(JointIds) :
        LET target == waypoint_angle(wp, c)
            prev == prev_deg_of(g, c)
        IN  deg_of(g, c) = (IF target - prev > max_delta THEN prev + max_delta
                            ELSE IF prev - target > max_delta THEN prev - max_delta
                            ELSE target)

\* C14: in the output of generate_minimal_servo_sequence the seq_num values
\* are 1, 2, 3, ... increasing by exactly one across the whole plan; the
\* groups are in phase order and, within a phase, in waypoint order; the
\* number of groups is the total number of waypoints returned for all
\* phases; every group holds exactly six commands, one for each of the six
\* joint ids.
GroupsFollowWaypoints ==
    /\ \A g \in 1..Len(sequence) :
           /\ sequence[g].seq_num = g
           /\ Len(sequence[g].commands) = 6
           /\ {sequence[g].commands[c].id : c \in 1..6} = JointIdSet
           /\ g <= Len(flattened(returned))
           /\ MadeFrom(g, flattened(returned)[g])
    /\ pc = "done" =>
           /\ Len(returned) = Len(plan.phases)
           /\ Len(sequence) = Len(flattened(returned))

\* a finished call on two phases, the first answered by the remote service
\* and the second by the fallback
GroupsFollowWaypointsWitness ==
    /\ pc = "done"
    /\ Len(plan.phases) = 2
    /\ returned[1] = try_trajectory(R_three_waypoints).val
    /\ traj_source = "fallback"
    /\ Len(sequence) = 3 + Len(returned[2])
    /\ sequence[Len(sequence)].seq_num = Len(sequence)

(***************************************************************************)
(* Two calls of generate_minimal_servo_sequence on the same                *)
(* RobotControlGenerator, running in two threads.  The planner has no      *)
(* client, so each trajectory is the deterministic fallback.  Every local  *)
(* of the method lives in the call's frame; last_angles is a reference to  *)
(* a dict.                                                                 *)
(***************************************************************************)
CallIds == {1, 2}
CallPhaseLists == {<<Ph_uppercut>>, <<Ph_footwork, Ph_uppercut>>, <<Ph_uppercut, Ph_footwork>>}
CallHints == {1, 8}
CallPlans ==
    {[phases |-> ps, max_velocity_hint |-> mv] : ps \in CallPhaseLists, mv \in CallHints}

\* variant: one dict for the generator, whichever call uses it
shared_last_angles(c) == 1

\* last_angles: Dict[str, int] = {...}: the dict display makes a new dict in
\* every call; dict identities are the call ids
new_last_angles(c) == c

NewFrame(p) ==
    [plan |-> p, pc |-> "start", max_delta |-> 0, last_angles |-> 0, phase_idx |-> 0,
     waypoints |-> <<>>, wp_idx |-> 0, sequence |-> <<>>, seq_counter |-> 0]

UnderWay(c) == calls[c].pc \in {"phase", "waypoint"}

Overlapped(c) == overlap \/ \E d \in CallIds \ {c} : UnderWay(d)

ThreadsInit ==
    /\ calls \in [CallIds -> {NewFrame(p) : p \in CallPlans}]
    /\ dicts = [c \in CallIds |-> <<>>]
    /\ overlap = FALSE
    /\ OracleIdle /\ SynthIdle /\ MapIdle /\ CompileIdle /\ PostIdle /\ ConstraintsIdle /\ SessionsIdle

\* lines 216-247 in call c
ThreadStart ==
    \E c \in CallIds :
        /\ calls[c].pc = "start"
        /\ LET d == new_last_angles(c)
           IN  /\ dicts' = [dicts EXCEPT ![d] = initial_last_angles]
               /\ calls' = [calls EXCEPT ![c] =
                               [@ EXCEPT !.max_delta = compute_max_delta(mv_of(calls[c].plan)),
                                         !.last_angles = d,
                                         !.sequence = <<>>,
                                         !.seq_counter = 1,
                                         !.phase_idx = 1,
                                         !.pc = "phase"]]
        /\ overlap' = Overlapped(c)
        /\ UNCHANGED <<oracleVars, synthVars, mapVars, compileVars, postVars, constraintVars, sessionVars>>

\* lines 248-257 in call c
ThreadNextPhase ==
    \E c \in CallIds :
        /\ calls[c].pc = "phase"
        /\ calls[c].phase_idx <= Len(calls[c].plan.phases)
        /\ LET ph == calls[c].plan.phases[calls[c].phase_idx]
               t == calculate_3d_targets(ph)
               res == plan_servo_trajectory(FALSE, ph, t[1], t[2], R_network_error)
           IN  calls' = [calls EXCEPT ![c] =
                           [@ EXCEPT !.waypoints = res.value,
                                     !.wp_idx = 1,
                                     !.pc = IF Len(res.value) = 0 THEN "phase" ELSE "waypoint",
                                     !.phase_idx = IF Len(res.value) = 0 THEN @ + 1 ELSE @]]
        /\ overlap' = Overlapped(c)
        /\ UNCHANGED <<dicts, oracleVars, synthVars, mapVars, compileVars, postVars, constraintVars, sessionVars>>

\* lines 259-284 in call c
ThreadEmitGroup ==
    \E c \in CallIds :
        /\ calls[c].pc = "waypoint"
        /\ calls[c].wp_idx <= Len(calls[c].waypoints)
        /\ LET f == calls[c]
               smoothed == smoothed_of(raw_of(f.waypoints[f.wp_idx]), dicts[f.last_angles],
                                       f.max_delta)
               last == f.wp_idx = Len(f.waypoints)
           IN  /\ dicts' = [dicts EXCEPT ![f.last_angles] = smoothed]
               /\ calls' = [calls EXCEPT ![c] =
                               [@ EXCEPT !.sequence = Append(@, command_group(f.seq_counter, smoothed)),
                                         !.seq_counter = @ + 1,
                                         !.wp_idx = @ + 1,
                                         !.pc = IF last THEN "phase" ELSE "waypoint",
                                         !.phase_idx = IF last THEN @ + 1 ELSE @]]
        /\ overlap' = Overlapped(c)
        /\ UNCHANGED <<oracleVars, synthVars, mapVars, compileVars, postVars, constraintVars, sessionVars>>

\* line 286 in call c
ThreadReturn ==
    \E c \in CallIds :
        /\ calls[c].pc = "phase"
        /\ calls[c].phase_idx > Len(calls[c].plan.phases)
        /\ calls' = [calls EXCEPT ![c].pc = "done"]
        /\ overlap' = Overlapped(c)
        /\ UNCHANGED <<dicts, oracleVars, synthVars, mapVars, compileVars, postVars, constraintVars, sessionVars>>

ThreadsNext == ThreadStart \/ ThreadNextPhase \/ ThreadEmitGroup \/ ThreadReturn

SpecThreads == ThreadsInit /\ [][ThreadsNext]_vars

\* the groups a single call makes of the waypoints wps, from baseline last
RECURSIVE emit_all(_, _, _, _)
emit_all(wps, last, md, n) ==
    IF wps = <<>> THEN <<>>
    ELSE LET smoothed == smoothed_of(raw_of(Head(wps)), last, md)
         IN  <<command_group(n, smoothed)>> \o emit_all(Tail(wps), smoothed, md, n + 1)

\* the sequence generate_minimal_servo_sequence returns for plan p when no
\* other call runs, the planner having no client
run_alone(p) ==
    LET trajectories ==
            [i \in 1..Len(p.phases) |->
                LET t == calculate_3d_targets(p.phases[i])
                IN  plan_servo_trajectory(FALSE, p.phases[i], t[1], t[2], R_network_error).value]
    IN  emit_all(flattened(trajectories), initial_last_angles, compute_max_delta(mv_of(p)), 1)

\* the single call of SpecSynth returns run_alone of its plan
SingleCallIsRunAlone == (pc = "done" /\ ~client) => sequence = run_alone(plan)

\* C15: the last-emitted-angle baseline is allocated per call and starts at
\* 90 for all six joints: however two calls on the same generator are
\* interleaved, each returns exactly the sequence it returns when run alone.
InterleavedCallsReturnAlone ==
    \A c \in CallIds :
        /\ (UnderWay(c) /\ calls[c].seq_counter = 1)
              => dicts[calls[c].last_angles] = initial_last_angles
        /\ calls[c].pc = "done" => calls[c].sequence = run_alone(calls[c].plan)

\* both calls have returned, on different plans, after running interleaved
InterleavedCallsWitness ==
    /\ overlap
    /\ \A c \in CallIds : calls[c].pc = "done" /\ Len(calls[c].sequence) > 3
    /\ calls[1].plan # calls[2].plan

(***************************************************************************)
(* post_sequence_to_robot: the servo sequence is sent to the robot, either *)
(* whole or one POST per step.  The robot answers each request with a      *)
(* status below 400, with a status of 400 or above, or the request raises  *)
(* (timeout, connection refused).                                          *)
(***************************************************************************)
PostOutcomes == {"ok", "status_error", "exception"}
PostModes == {"servos", "sequence"}
PostPlans ==
    {[phases |-> ps, max_velocity_hint |-> 8] : ps \in {<<Ph_uppercut>>, <<Ph_footwork>>}}
PostPayloads == {run_alone(p) : p \in PostPlans}

\* id_to_index.get(sid, None), counted from 1; 0 for None
id_to_index(sid) ==
    IF sid \in JointIdSet THEN CHOOSE i \in 1..Len(JointIds) : JointIds[i] = sid ELSE 0

\* the inner for loop: angles[idx] = max(0, min(180, deg)) for each command
apply_commands(a, cmds) ==
    [i \in 1..6 |->
        LET hits == {k \in 1..Len(cmds) : id_to_index(cmds[k].id) = i}
        IN  IF hits = {} THEN a[i]
            ELSE LET k == CHOOSE h \in hits : \A j \in hits : j <= h
                 IN  Max(0, Min(180, cmds[k].deg))]

\* variant: the try statement around the whole loop, so that an exception
\* ends the loop
abort_on_exception(idx, outcome, n) == IF outcome = "exception" THEN n + 1 ELSE idx + 1

\* the try statement is inside the for loop: whatever the outcome of step
\* idx of n, the loop goes on with the next step
step_after(idx, outcome, n) == idx + 1

PostInit ==
    /\ p_mode \in PostModes
    /\ p_payload \in PostPayloads
    /\ p_pc = "start" /\ p_idx = 0 /\ angles = <<>> /\ posts = <<>> /\ p_log = <<>>
    /\ OracleIdle /\ SynthIdle /\ MapIdle /\ CompileIdle /\ ThreadsIdle /\ ConstraintsIdle /\ SessionsIdle

\* lines 220-231: the whole payload in one request
PostFullSequence ==
    /\ p_pc = "start" /\ p_mode = "sequence"
    /\ \E outcome \in PostOutcomes :
         /\ posts' = Append(posts, [body |-> p_payload, seq_num |-> 0, outcome |-> outcome])
         /\ p_log' = IF outcome = "ok" THEN p_log
                     ELSE Append(p_log, [level |-> IF outcome = "exception" THEN "error"
                                                   ELSE "warning",
                                         step |-> 0])
    /\ p_pc' = "done"
    /\ UNCHANGED <<p_mode, p_payload, p_idx, angles, oracleVars, synthVars, mapVars,
                   compileVars, threadVars, constraintVars, sessionVars>>

\* lines 232-248: the locals of the step-wise branch
PostBeginStream ==
    /\ p_pc = "start" /\ p_mode # "sequence"
    /\ angles' = [i \in 1..6 |-> 90]
    /\ p_idx' = 1
    /\ p_pc' = "streaming"
    /\ UNCHANGED <<p_mode, p_payload, posts, p_log, oracleVars, synthVars, mapVars,
                   compileVars, threadVars, constraintVars, sessionVars>>

\* lines 249-266: one iteration of the for loop
PostStep ==
    /\ p_pc = "streaming"
    /\ p_idx <= Len(p_payload)
    /\ \E outcome \in PostOutcomes :
         LET step == p_payload[p_idx]
             sent == apply_commands(angles, step.commands)
         IN  /\ angles' = sent
             /\ posts' = Append(posts, [body |-> sent, seq_num |-> step.seq_num,
                                        outcome |-> outcome])
             /\ p_log' = IF outcome = "ok" THEN p_log
                         ELSE Append(p_log, [level |-> "warning", step |-> p_idx])
             /\ p_idx' = step_after(p_idx, outcome, Len(p_payload))
    /\ UNCHANGED <<p_mode, p_payload, p_pc, oracleVars, synthVars, mapVars, compileVars,
                   threadVars, constraintVars, sessionVars>>

\* the for loop is exhausted
PostEndStream ==
    /\ p_pc = "streaming"
    /\ p_idx > Len(p_payload)
    /\ p_pc' = "done"
    /\ UNCHANGED <<p_mode, p_payload, p_idx, angles, posts, p_log, oracleVars, synthVars,
                   mapVars, compileVars, threadVars, constraintVars, sessionVars>>

PostNext == PostFullSequence \/ PostBeginStream \/ PostStep \/ PostEndStream

SpecPost == PostInit /\ [][PostNext]_vars

FailedSteps == {k \in 1..Len(posts) : posts[k].outcome # "ok"}

\* C16: streaming step by step, post_sequence_to_robot issues one POST per
\* command group in ascending sequence order; a failed step (an exception
\* or a status of 400 or above) does not stop the POSTs of the later steps;
\* every failed step is reported.
StreamPostsEveryStep ==
    p_mode = "servos" =>
        /\ Len(posts) <= Len(p_payload)
        /\ \A k \in 1..Len(posts) :
               /\ posts[k].seq_num = p_payload[k].seq_num
               /\ k > 1 => posts[k - 1].seq_num < posts[k].seq_num
        /\ p_pc = "done" => Len(posts) = Len(p_payload)
        /\ Len(p_log) = Cardinality(FailedSteps)
        /\ \A k \in FailedSteps : \E l \in 1..Len(p_log) : p_log[l].step = k

\* a finished stream of six steps whose second request raised and whose
\* third was answered with an error status
StreamPostsWitness ==
    /\ p_mode = "servos" /\ p_pc = "done"
    /\ Len(posts) = 6
    /\ posts[2].outcome = "exception"
    /\ posts[3].outcome = "status_error"
    /\ posts[6].outcome = "ok"

(***************************************************************************)
(* Properties of the timing-optimization pass, on the phases the plan was  *)
(* constructed with.                                                       *)
(***************************************************************************)
\* the phases of the guide before _optimize_phase_timing
MappedPhases == [i \in 1..Len(guide.steps) |-> map_step_to_phase(guide.steps[i], guide.domain)]

AfterExplosive(i) ==
    /\ i > 1
    /\ MappedPhases[i - 1].velocity_profile = "explosive"
    /\ MappedPhases[i].velocity_profile = "slow"

BeforeExplosive(i) ==
    /\ i < Len(MappedPhases)
    /\ MappedPhases[i].velocity_profile = "slow"
    /\ MappedPhases[i + 1].velocity_profile = "explosive"

Lengthened(i) == c_built[i].duration_ms = (MappedPhases[i].duration_ms * 12) \div 10
Shortened(i) == c_built[i].duration_ms = (MappedPhases[i].duration_ms * 9) \div 10

\* C17 as stated: after the timing-optimization pass every slow phase whose
\* immediate predecessor is explosive has 1.2 times its mapped duration,
\* truncated to an integer.
SlowAfterExplosiveLengthened ==
    c_pc = "returned" => \A i \in 1..Len(c_built) : AfterExplosive(i) => Lengthened(i)

\* C17 amended: after the timing-optimization pass a slow phase whose
\* immediate predecessor is explosive has 1.2 times its mapped duration,
\* truncated, unless its immediate successor is explosive too, and then it
\* has 0.9 times its mapped duration, truncated.
SlowAfterExplosiveLengthenedUnlessBefore ==
    c_pc = "returned" =>
        \A i \in 1..Len(c_built) :
            AfterExplosive(i) => IF BeforeExplosive(i) THEN Shortened(i) ELSE Lengthened(i)

\* a compiled plan with a lengthened slow phase after an explosive one
SlowAfterExplosiveWitness ==
    /\ c_pc = "returned"
    /\ \E i \in 1..Len(c_built) :
          /\ AfterExplosive(i) /\ ~BeforeExplosive(i)
          /\ c_built[i].duration_ms = 720 /\ MappedPhases[i].duration_ms = 600

\* C18: after the timing-optimization pass every slow phase whose immediate
\* successor is explosive has 0.9 times its mapped duration, truncated; the
\* two factors are never compounded on one phase; a phase that qualifies for
\* neither check, and every phase of a one-phase plan, keeps its duration;
\* the velocities are those of the un-optimized list.
SlowBeforeExplosiveShortened ==
    c_pc = "returned" =>
        /\ Len(c_built) = Len(MappedPhases)
        /\ \A i \in 1..Len(c_built) :
               /\ BeforeExplosive(i) => Shortened(i)
               /\ (~BeforeExplosive(i) /\ ~AfterExplosive(i))
                     => c_built[i].duration_ms = MappedPhases[i].duration_ms
               /\ c_built[i].velocity_profile = MappedPhases[i].velocity_profile
        /\ Len(c_built) = 1 => c_built = MappedPhases

\* a compiled plan whose slow middle phase lies between two explosive ones
SlowBeforeExplosiveWitness ==
    /\ c_pc = "returned"
    /\ Len(c_built) = 3
    /\ AfterExplosive(2) /\ BeforeExplosive(2)
    /\ MappedPhases[2].duration_ms = 600 /\ c_built[2].duration_ms = 540

(***************************************************************************)
(* Properties of plan_servo_positions on incomplete replies and of the     *)
(* fallback's power multiplier.                                            *)
(***************************************************************************)
\* the reply of the last call parsed as a JSON object without "left_arm" or
\* without "right_arm"
ArmKeyMissing ==
    /\ o_call.method = "positions" /\ o_client /\ o_call.reply.net = "ok"
    /\ LET parsed == parse_lenient_json(o_call.reply.text)
       IN  /\ parsed.ok
           /\ parsed.val.t = "obj"
           /\ parsed.val.left_arm.t = "absent" \/ parsed.val.right_arm.t = "absent"

\* C19: when the remote response to plan_servo_positions parses as a JSON
\* object that lacks "left_arm" or "right_arm", the angles returned are those
\* the deterministic fallback computes for the phase and its targets.
MissingArmKeyFallsBack ==
    ArmKeyMissing =>
        LET t == calculate_3d_targets(o_phase)
            fb == fallback_plan(o_phase, t[1], t[2])
        IN  /\ o_call.result.source = "fallback"
            /\ o_call.result.value.left_arm = fb.left_arm
            /\ o_call.result.value.right_arm = fb.right_arm

\* the active right arm of RightCrossFallback shows the multiplier m (tenths):
\* its neutral shoulder_vertical 90 is multiplied by m and its neutral
\* elbow_vertical 120 is lowered by round((m - 1.0) * 10)
RightArmScaledBy(m) ==
    /\ o_call.result.value.right_arm.shoulder_vertical = (90 * m) \div 10
    /\ o_call.result.value.right_arm.elbow_vertical = 120 - (m - 10)

\* C20 as stated: the fallback's power multiplier is 1.2 exactly when the
\* velocity is explosive or the force is maximum, 0.9 exactly when the
\* velocity is slow and the force minimal, and 1.0 for every other pair of
\* the vocabulary (fast/controlled and medium/controlled among them).
PowerScaleExplosiveOrMaximum ==
    RightCrossFallback =>
        LET v == o_phase.velocity_profile
            f == o_phase.force_profile
        IN  RightArmScaledBy(IF v = "explosive" \/ f = "maximum" THEN 12
                             ELSE IF v = "slow" /\ f = "minimal" THEN 9
                             ELSE 10)

\* C20 amended: the multiplier is 1.2 exactly when the velocity is explosive
\* or fast, or the force is maximum; 0.9 exactly when the velocity is slow
\* and the force minimal; 1.0 for every other pair of the vocabulary.
PowerScaleFastToo ==
    RightCrossFallback =>
        LET v == o_phase.velocity_profile
            f == o_phase.force_profile
        IN  RightArmScaledBy(IF v \in {"explosive", "fast"} \/ f = "maximum" THEN 12
                             ELSE IF v = "slow" /\ f = "minimal" THEN 9
                             ELSE 10)

\* the fallback plan of a fast, controlled right cross, scaled by 1.2
PowerScaleWitness ==
    /\ RightCrossFallback
    /\ o_phase.velocity_profile = "fast" /\ o_phase.force_profile = "controlled"
    /\ o_call.result.value.right_arm.shoulder_vertical = 108
    /\ o_call.result.value.right_arm.elbow_vertical = 118

(***************************************************************************)
(* Properties of the fallback trajectory.                                  *)
(***************************************************************************)
\* round(duration_ms / 200) as Python rounds, a tie going to the even
\* neighbour; a duration of 0 counts as 500
RoundedFifths ==
    LET d == IF o_phase.duration_ms = 0 THEN 500 ELSE o_phase.duration_ms
        q == d \div 200
        r == d % 200
    IN  IF r > 100 \/ (r = 100 /\ q % 2 = 1) THEN q + 1 ELSE q

ClampedCount ==
    LET n == IF RoundedFifths < 3 THEN 3 ELSE IF RoundedFifths > 7 THEN 7 ELSE RoundedFifths
        v == o_phase.velocity_profile
    IN  IF v = "explosive" THEN (IF n > 4 THEN 4 ELSE n)
        ELSE IF v = "slow" THEN (IF n < 5 THEN 5 ELSE n)
        ELSE n

FallbackTrajectoryReturned ==
    /\ o_call.method = "trajectory"
    /\ ~o_call.result.raised
    /\ o_call.result.source = "fallback"

\* C21: the fallback trajectory has n waypoints, n being
\* clamp(round(duration_ms / 200), 3, 7), then at most 4 when the velocity is
\* explosive and at least 5 when it is slow; for every duration n is within
\* [3, 7].
FallbackWaypointCount ==
    FallbackTrajectoryReturned =>
        /\ Len(o_call.result.value) = ClampedCount
        /\ Len(o_call.result.value) \in 3..7
        /\ o_phase.velocity_profile = "explosive" => Len(o_call.result.value) <= 4
        /\ o_phase.velocity_profile = "slow" => Len(o_call.result.value) >= 5

\* the fallback trajectory of a slow phase of 900 ms, floored at 5
FallbackWaypointCountWitness ==
    /\ FallbackTrajectoryReturned
    /\ o_phase.velocity_profile = "slow" /\ o_phase.duration_ms = 900
    /\ Len(o_call.result.value) = 5

\* the pose plan_servo_positions resolves for the phase of the last call and
\* its targets, the service answering with reply
ResolvedPose(reply) ==
    LET t == calculate_3d_targets(o_phase)
    IN  plan_servo_positions(o_client, o_phase, t[1], t[2], reply)

LastWaypoint == o_call.result.value[Len(o_call.result.value)]

\* C22: for every phase, the last waypoint of the trajectory returned by
\* plan_servo_trajectory equals, joint for joint, the single pose that
\* plan_servo_positions resolves for the same phase and targets.
LastWaypointIsResolvedPose ==
    (o_call.method = "trajectory" /\ ~o_call.result.raised /\ Len(o_call.result.value) > 0) =>
        \A reply \in Replies :
            ~ResolvedPose(reply).raised =>
                /\ LastWaypoint.left_arm = ResolvedPose(reply).value.left_arm
                /\ LastWaypoint.right_arm = ResolvedPose(reply).value.right_arm

(***************************************************************************)
(* Properties of the fallback's role inference, read off the arms of the   *)
(* fallback plan: an active arm is scaled by the power multiplier, an      *)
(* inactive one is pulled halfway to the guard.                            *)
(***************************************************************************)
Occurs(word) == Contains(Lower(o_phase.name), word) \/ Contains(Lower(o_phase.cue), word)

SaysLeft == Occurs(<<"l","e","f","t">>)
SaysRight == Occurs(<<"r","i","g","h","t">>) \/ Occurs(<<"c","r","o","s","s">>)
SaysStrike ==
    Occurs(<<"u","p","p","e","r","c","u","t">>) \/ Occurs(<<"h","o","o","k">>)
        \/ Occurs(<<"p","u","n","c","h">>)

FallbackPoseReturned ==
    /\ o_call.method = "positions"
    /\ ~o_call.result.raised
    /\ o_call.result.source = "fallback"

\* the returned arms are those of an active (TRUE) or inactive (FALSE) arm
ArmsMappedAs(left_active, right_active) ==
    LET t == calculate_3d_targets(o_phase)
    IN  /\ o_call.result.value.left_arm = map_arm(t[1], "left", left_active, power_scale(o_phase))
        /\ o_call.result.value.right_arm = map_arm(t[2], "right", right_active, power_scale(o_phase))

\* C23: over the lowercased name and cue, "left" in either makes only the
\* left arm active; otherwise "right" or "cross" makes only the right arm
\* active; otherwise "uppercut", "hook" or "punch" makes only the right arm
\* active; otherwise neither arm is active; at most one arm is ever active.
RolesFollowKeywords ==
    FallbackPoseReturned =>
        /\ map_arm(calculate_3d_targets(o_phase)[1], "left", TRUE, power_scale(o_phase))
              # map_arm(calculate_3d_targets(o_phase)[1], "left", FALSE, power_scale(o_phase))
        /\ map_arm(calculate_3d_targets(o_phase)[2], "right", TRUE, power_scale(o_phase))
              # map_arm(calculate_3d_targets(o_phase)[2], "right", FALSE, power_scale(o_phase))
        /\ IF SaysLeft THEN ArmsMappedAs(TRUE, FALSE)
           ELSE IF SaysRight \/ SaysStrike THEN ArmsMappedAs(FALSE, TRUE)
           ELSE ArmsMappedAs(FALSE, FALSE)

\* the fallback pose of a right cross whose cue says "Left foot": the left
\* arm is the active one
RolesFollowKeywordsWitness ==
    /\ FallbackPoseReturned
    /\ SaysLeft /\ SaysRight
    /\ ArmsMappedAs(TRUE, FALSE)

(***************************************************************************)
(* ConstraintGenerator.generate_constraints called with any domain and any *)
(* complexity score from 0 up to well above 10.                            *)
(***************************************************************************)
ScoreInputs ==
    {<<n, d>> : n \in {0, 1, 2500, 17000, 50000, 62000, 99999, 100000, 100001, 120000,
                       250000, 1000000},
               d \in {1, 2}}

ConstraintsInit ==
    /\ g_domain \in Domains
    /\ g_score \in ScoreInputs
    /\ g_constraints = <<>>
    /\ OracleIdle /\ SynthIdle /\ MapIdle /\ CompileIdle /\ ThreadsIdle /\ PostIdle /\ SessionsIdle

\* constraints = generator.generate_constraints(domain, complexity_score)
GenerateConstraints ==
    /\ g_constraints = <<>>
    /\ g_constraints' = generate_constraints(g_domain, g_score)
    /\ UNCHANGED <<g_domain, g_score, oracleVars, synthVars, mapVars, compileVars,
                   threadVars, postVars, sessionVars>>

ConstraintsNext == GenerateConstraints

SpecConstraints == ConstraintsInit /\ [][ConstraintsNext]_vars

RECURSIVE GCD(_, _)
GCD(a, b) == IF b = 0 THEN a ELSE GCD(b, a % b)

\* a fraction in lowest terms
Reduced(r) == LET g == GCD(r[1], r[2]) IN <<r[1] \div g, r[2] \div g>>

\* min(1, score / 10) as num / FactorDen, the score being g_score
FactorDen == 100000 * g_score[2]
FactorNum == IF g_score[1] > FactorDen THEN FactorDen ELSE g_score[1]

\* the base values of the domain, in 1/100
BaseVelocity ==
    IF g_domain = "sports" THEN 85 ELSE IF g_domain = "music" THEN 60 ELSE 90
BaseMargins ==
    IF g_domain = "sports"
    THEN [impact_force |-> 75, joint_stress |-> 80, balance_threshold |-> 85]
    ELSE IF g_domain = "music"
    THEN [repetitive_strain |-> 60, joint_stress |-> 90, fatigue_threshold |-> 70]
    ELSE [impact_force |-> 80, joint_stress |-> 70, balance_threshold |-> 90]

\* max(0.5, base - 0.1 * factor), in 1/100
ExpectedMargin(base) ==
    LET num == base * FactorDen - 10 * FactorNum
    IN  IF num < 50 * FactorDen THEN <<50, 1>> ELSE Reduced(<<num, FactorDen>>)

\* C24: for every domain and every complexity_score >= 0 generate_constraints
\* returns max_velocity_hint = base * (1 - 0.2 * min(1, score / 10)), which
\* lies in [0.8 * base, base] and in (0, 1], and every safety margin equals
\* max(0.5, base_margin - 0.1 * min(1, score / 10)), so that no margin is
\* below 0.5 or above its base value.
ConstraintsScaledByComplexity ==
    g_constraints # <<>> =>
        LET mv == g_constraints.max_velocity_hint
            sm == g_constraints.safety_margins
        IN  /\ mv[2] > 0
            /\ Reduced(mv) = Reduced(<<BaseVelocity * (5 * FactorDen - FactorNum), 5 * FactorDen>>)
            /\ 10 * mv[1] >= 8 * BaseVelocity * mv[2]
            /\ mv[1] <= BaseVelocity * mv[2]
            /\ mv[1] > 0 /\ mv[1] <= 100 * mv[2]
            /\ DOMAIN sm = DOMAIN BaseMargins
            /\ \A k \in DOMAIN sm :
                   /\ sm[k][2] > 0
                   /\ Reduced(sm[k]) = ExpectedMargin(BaseMargins[k])
                   /\ sm[k][1] >= 50 * sm[k][2]
                   /\ sm[k][1] <= BaseMargins[k] * sm[k][2]

\* the constraints of a music skill of score 25: the factor is capped at 1,
\* the velocity hint is 0.48 and the repetitive-strain margin is 0.5
ConstraintsWitness ==
    /\ g_domain = "music" /\ g_score = <<250000, 1>>
    /\ g_constraints # <<>>
    /\ Reduced(g_constraints.max_velocity_hint) = <<48, 1>>
    /\ Reduced(g_constraints.safety_margins.repetitive_strain) = <<50, 1>>

\* ---------------------------------------------------------------------------
\* app.py: process_skill_with_streaming.  process_skill starts every run in a
\* thread of its own, so the steps of two runs interleave; the session id is
\* the client's, or "session_<second>" by default, and two runs can share it.
\* ---------------------------------------------------------------------------
RunIds == {1, 2}
SessionIds == {"session_a", "session_b"}
\* the guides create_skill_guide can return here: one without steps, one of one step
SessionGuides ==
    {[domain |-> "martial_arts", steps |-> <<>>],
     [domain |-> "martial_arts", steps |-> <<Step(<<"S","t","r","i","k","e">>, <<>>, 3)>>]}

\* the fields of the SkillBundle dataclass
SkillBundleFields == {"query", "sources", "guide", "plan", "metadata"}

\* what a run holds before it is started
NewRun(sid) ==
    [session_id |-> sid, pc |-> "start", events |-> <<>>, guide |-> <<>>, plan |-> <<>>,
     saved |-> {}, final_movements |-> 0, posted |-> FALSE, outcome |-> "", error |-> ""]

\* StreamingProcessor.emit_progress: one progress_update to the session's room
emit_progress(events, step, progress) == Append(events, <<step, progress>>)

\* SkillLearningPipeline.save_bundle on a bundle with the given fields, called
\* by run r: sources.json, guide.json and plan.json are written, then
\* `bundle.robot_instructions` is read, and the AttributeError of a bundle
\* without that field leaves as a SkillLearningError; otherwise
\* servo_sequence.json and complete_bundle.json are written too
save_bundle(fields, files, r) ==
    LET first == [f \in {"sources.json", "guide.json", "plan.json"} |-> r]
        rest == [f \in {"servo_sequence.json", "complete_bundle.json"} |-> r]
        after_first == first @@ files
    IN  IF "robot_instructions" \in fields
        THEN [ok |-> TRUE, files |-> rest @@ after_first,
              written |-> DOMAIN first \cup DOMAIN rest, error |-> ""]
        ELSE [ok |-> FALSE, files |-> after_first,
              written |-> DOMAIN first, error |-> "SkillLearningError"]

\* variant: the session's entry stays
keep_session(sessions, sid) == sessions

\* `del active_sessions[session_id]`
del_session(sessions, sid) == [k \in DOMAIN sessions \ {sid} |-> sessions[k]]

SessionsInit ==
    /\ runs \in [RunIds -> {NewRun(sid) : sid \in SessionIds}]
    /\ active_sessions = <<>>
    /\ posted_sequence_sessions = {}
    /\ output_files = <<>>
    /\ post_threads = <<>>
    /\ OracleIdle /\ SynthIdle /\ MapIdle /\ CompileIdle /\ ThreadsIdle /\ PostIdle
    /\ ConstraintsIdle

SessionsUnchanged ==
    UNCHANGED <<oracleVars, synthVars, mapVars, compileVars, threadVars, postVars,
                constraintVars>>

\* `active_sessions[session_id] = processor`
RegisterSession(r) ==
    /\ runs[r].pc = "start"
    /\ active_sessions' = (runs[r].session_id :> r) @@ active_sessions
    /\ runs' = [runs EXCEPT ![r].pc = "scrape"]
    /\ UNCHANGED <<posted_sequence_sessions, output_files, post_threads>>
    /\ SessionsUnchanged

\* "Initializing" 0, "Scraping sources" 10, scrape_query, "Sources found" 30
ScrapeSources(r) ==
    /\ runs[r].pc = "scrape"
    /\ \E ok \in BOOLEAN :
         LET e == emit_progress(emit_progress(runs[r].events, "Initializing", 0),
                                "Scraping sources", 10)
         IN  runs' = [runs EXCEPT
                 ![r].events = IF ok THEN emit_progress(e, "Sources found", 30) ELSE e,
                 ![r].error = IF ok THEN "" ELSE "ScrapingError",
                 ![r].pc = IF ok THEN "guide" ELSE "except"]
    /\ UNCHANGED <<active_sessions, posted_sequence_sessions, output_files, post_threads>>
    /\ SessionsUnchanged

\* "Generating skill guide" 40, create_skill_guide, "Guide generated" 70
CreateSkillGuide(r) ==
    /\ runs[r].pc = "guide"
    /\ LET e == emit_progress(runs[r].events, "Generating skill guide", 40)
       IN  \/ \E g \in SessionGuides :
                runs' = [runs EXCEPT ![r].events = emit_progress(e, "Guide generated", 70),
                                     ![r].guide = g,
                                     ![r].pc = "compile"]
           \/ runs' = [runs EXCEPT ![r].events = e, ![r].error = "LLMError",
                                   ![r].pc = "except"]
    /\ UNCHANGED <<active_sessions, posted_sequence_sessions, output_files, post_threads>>
    /\ SessionsUnchanged

\* "Compiling execution plan" 80, compile_skill_guide, validate_execution_plan
CompileExecutionPlan(r) ==
    /\ runs[r].pc = "compile"
    /\ LET e == emit_progress(runs[r].events, "Compiling execution plan", 80)
           res == compile_skill_guide(runs[r].guide)
       IN  runs' = [runs EXCEPT
               ![r].events = e,
               ![r].plan = IF res.ok THEN res.val ELSE <<>>,
               ![r].error = res.exc,
               ![r].pc = IF res.ok THEN "finalize" ELSE "except"]
    /\ UNCHANGED <<active_sessions, posted_sequence_sessions, output_files, post_threads>>
    /\ SessionsUnchanged

\* "Finalizing" 90, the SkillBundle, save_bundle and, when it returns, the rest
\* of the try block: 'final_movements' with the content of servo_sequence.json,
\* the duplicate guard, the post thread, "Complete" 100 and `return bundle`
SaveAndComplete(r) ==
    /\ runs[r].pc = "finalize"
    /\ LET e == emit_progress(runs[r].events, "Finalizing", 90)
           sid == runs[r].session_id
           res == save_bundle(SkillBundleFields, output_files, r)
           post == sid \notin posted_sequence_sessions
       IN  /\ output_files' = res.files
           /\ IF res.ok
              THEN /\ runs' = [runs EXCEPT
                          ![r].events = emit_progress(e, "Complete", 100),
                          ![r].saved = res.written,
                          ![r].final_movements = res.files["servo_sequence.json"],
                          ![r].posted = post,
                          ![r].outcome = "returned",
                          ![r].pc = "finally"]
                   /\ posted_sequence_sessions' = posted_sequence_sessions \cup {sid}
                   /\ post_threads' = IF post THEN Append(post_threads, sid) ELSE post_threads
              ELSE /\ runs' = [runs EXCEPT ![r].events = e,
                                           ![r].saved = res.written,
                                           ![r].error = res.error,
                                           ![r].pc = "except"]
                   /\ UNCHANGED <<posted_sequence_sessions, post_threads>>
    /\ UNCHANGED active_sessions
    /\ SessionsUnchanged

\* `except Exception as e`: "Error" -1, then `raise`
HandleException(r) ==
    /\ runs[r].pc = "except"
    /\ runs' = [runs EXCEPT ![r].events = emit_progress(runs[r].events, "Error", -1),
                            ![r].outcome = "raised",
                            ![r].pc = "finally"]
    /\ UNCHANGED <<active_sessions, posted_sequence_sessions, output_files, post_threads>>
    /\ SessionsUnchanged

\* `finally`: `if session_id in active_sessions`
CheckActiveSession(r) ==
    /\ runs[r].pc = "finally"
    /\ runs' = [runs EXCEPT ![r].pc = IF runs[r].session_id \in DOMAIN active_sessions
                                      THEN "del_active" ELSE "clean_posted"]
    /\ UNCHANGED <<active_sessions, posted_sequence_sessions, output_files, post_threads>>
    /\ SessionsUnchanged

\* `del active_sessions[session_id]`: a KeyError when another run of the same
\* id deleted the entry since the test, and the KeyError leaves the function
DeleteActiveSession(r) ==
    /\ runs[r].pc = "del_active"
    /\ IF runs[r].session_id \in DOMAIN active_sessions
       THEN /\ active_sessions' = del_session(active_sessions, runs[r].session_id)
            /\ runs' = [runs EXCEPT ![r].pc = "clean_posted"]
       ELSE /\ runs' = [runs EXCEPT ![r].outcome = "raised", ![r].error = "KeyError",
                                    ![r].pc = "ended"]
            /\ UNCHANGED active_sessions
    /\ UNCHANGED <<posted_sequence_sessions, output_files, post_threads>>
    /\ SessionsUnchanged

\* `if session_id in posted_sequence_sessions: try: remove except KeyError: pass`
CleanPostedSession(r) ==
    /\ runs[r].pc = "clean_posted"
    /\ posted_sequence_sessions' = posted_sequence_sessions \ {runs[r].session_id}
    /\ runs' = [runs EXCEPT ![r].pc = "ended"]
    /\ UNCHANGED <<active_sessions, output_files, post_threads>>
    /\ SessionsUnchanged

SessionsNext ==
    \E r \in RunIds :
        \/ RegisterSession(r)
        \/ ScrapeSources(r)
        \/ CreateSkillGuide(r)
        \/ CompileExecutionPlan(r)
        \/ SaveAndComplete(r)
        \/ HandleException(r)
        \/ CheckActiveSession(r)
        \/ DeleteActiveSession(r)
        \/ CleanPostedSession(r)

SpecSessions == SessionsInit /\ [][SessionsNext]_vars

LastEvent(r) == runs[r].events[Len(runs[r].events)]
CompiledRun(r) == runs[r].plan # <<>>

\* C29: a run of process_skill_with_streaming whose scraping, guide creation
\* and compile_skill_guide all succeeded has saved the bundle, with
\* servo_sequence.json, and has ended by emitting "Complete" with progress 100
\* and returning the bundle.
CompiledRunCompletes ==
    \A r \in RunIds :
        (runs[r].pc = "ended" /\ CompiledRun(r)) =>
            /\ "servo_sequence.json" \in runs[r].saved
            /\ runs[r].outcome = "returned"
            /\ \E i \in 1..Len(runs[r].events) : runs[r].events[i] = <<"Complete", 100>>

\* a run that compiled its plan and ended
CompiledRunEnded == \E r \in RunIds : runs[r].pc = "ended" /\ CompiledRun(r)

EmittedError(r) == \E i \in 1..Len(runs[r].events) : runs[r].events[i] = <<"Error", -1>>
\* no run of session id s is between its registration and its end
NoRunUnderWay(s) == \A r \in RunIds : runs[r].session_id = s => runs[r].pc \in {"start", "ended"}
PastCleanup(r) == runs[r].pc \in {"clean_posted", "ended"}

\* C30 as stated: a run of process_skill_with_streaming that has ended, by
\* return or by exception, has its session id in neither active_sessions nor
\* posted_sequence_sessions, and when it ended by exception it has emitted
\* "Error" with progress -1 before the exception left it.
SessionIdAbsentAtEnd ==
    \A r \in RunIds :
        runs[r].pc = "ended" =>
            /\ runs[r].session_id \notin DOMAIN active_sessions
            /\ runs[r].session_id \notin posted_sequence_sessions
            /\ runs[r].outcome = "raised" => EmittedError(r)

\* C30 amended: a run of process_skill_with_streaming that is past its
\* cleanup has no entry of its own left in active_sessions, a run that has
\* ended has not its id in posted_sequence_sessions, and once no run of a
\* session id is under way the id is in neither collection (the id can be in
\* active_sessions at the end of a run only as the entry of another run of
\* the same id); a run that ended by exception has emitted "Error" with
\* progress -1 before the exception left it.
SessionLeftClean ==
    /\ \A r \in RunIds :
          /\ PastCleanup(r) =>
                ~(/\ runs[r].session_id \in DOMAIN active_sessions
                  /\ active_sessions[runs[r].session_id] = r)
          /\ runs[r].pc = "ended" =>
                /\ runs[r].session_id \notin posted_sequence_sessions
                /\ runs[r].outcome = "raised" => EmittedError(r)
    /\ \A s \in SessionIds :
          (NoRunUnderWay(s) /\ \E r \in RunIds : runs[r].session_id = s /\ runs[r].pc = "ended")
              => s \notin DOMAIN active_sessions /\ s \notin posted_sequence_sessions

\* run 1 has ended by exception after "Error" -1 and has removed its entry,
\* and run 2 of the same session id, registered since, is still under way
SessionLeftCleanWitness ==
    /\ runs[1].pc = "ended" /\ runs[1].outcome = "raised" /\ EmittedError(1)
    /\ LastEvent(1) = <<"Error", -1>>
    /\ runs[2].session_id = runs[1].session_id
    /\ runs[2].pc \notin {"start", "ended"}
    /\ runs[1].session_id \in DOMAIN active_sessions
    /\ active_sessions[runs[1].session_id] = 2

(***************************************************************************)
(* Properties of the pose plan_servo_positions returns.                    *)
(***************************************************************************)
PositionsReturned == o_call.method = "positions" /\ ~o_call.result.raised
AnglesInRange(arm) ==
    /\ DOMAIN arm = JointNames
    /\ \A j \in JointNames : arm[j] \in 0..180
\* the "reasoning" value of the reply that was validated
RepliedReasoning == parse_lenient_json(chat(o_call.reply).val).val.reasoning
\* the reply has no entry k of "reasoning"
Omitted(k) == RepliedReasoning.t = "absent" \/ k \notin RepliedReasoning.present
\* 3D targets far from the shoulders, in tenths of a metre
FarTargets == {[x |-> x, y |-> y, z |-> z] : x \in {-100, 0, 100}, y \in {-100, 2, 100},
                                             z \in {-100, 12, 100}}
FallbackAnglesInRange ==
    \A tgt \in FarTargets, side \in {"left", "right"}, active \in BOOLEAN, ps \in {9, 10, 12} :
        AnglesInRange(map_arm(tgt, side, active, ps))

\* C26 as stated: in every outcome of plan_servo_positions the six joint
\* angles are integers in [0,180] and the six per-servo reasoning keys and
\* "movement" are present, each being the empty string when the service
\* omitted it.
PoseClampedReasoningEmptyWhenOmitted ==
    /\ FallbackAnglesInRange
    /\ PositionsReturned =>
          /\ AnglesInRange(o_call.result.value.left_arm)
          /\ AnglesInRange(o_call.result.value.right_arm)
          /\ DOMAIN o_call.result.value.reasoning = ReasoningKeys
          /\ o_call.result.source = "remote" =>
                \A k \in ReasoningKeys : Omitted(k) => o_call.result.value.reasoning[k] = ""

\* C26 amended: in every outcome of plan_servo_positions the six joint
\* angles are integers in [0,180] and the six per-servo reasoning keys and
\* "movement" are present; a key the service omitted is the empty string,
\* except "movement" when the response has no "reasoning" at all, which is
\* then "Deterministic fallback reasoning.".
PoseClampedReasoningDefaulted ==
    /\ FallbackAnglesInRange
    /\ PositionsReturned =>
          /\ AnglesInRange(o_call.result.value.left_arm)
          /\ AnglesInRange(o_call.result.value.right_arm)
          /\ DOMAIN o_call.result.value.reasoning = ReasoningKeys
          /\ o_call.result.source = "remote" =>
                \A k \in ReasoningKeys :
                    Omitted(k) =>
                        o_call.result.value.reasoning[k] =
                            IF k = "movement" /\ RepliedReasoning.t = "absent"
                            THEN "Deterministic fallback reasoning." ELSE ""

\* a remote pose was accepted whose left arm came as 999, -20 and a
\* non-number and whose right arm lacked shoulder_vertical and had 45.5
PoseClampedWitness ==
    /\ PositionsReturned
    /\ o_call.result.source = "remote"
    /\ o_call.reply.text.data.left_arm = WildArm
    /\ o_call.result.value.left_arm =
          [shoulder_vertical |-> 180, shoulder_horizontal |-> 0, elbow_vertical |-> 90]
    /\ o_call.result.value.right_arm =
          [shoulder_vertical |-> 90, shoulder_horizontal |-> 46, elbow_vertical |-> 0]
    /\ o_call.result.value.reasoning["right_elbow_vertical"] = ""
    /\ o_call.result.value.reasoning["movement"] = "text"

(***************************************************************************)
(* Smoothing of the synthesized sequence.                                  *)
(***************************************************************************)
\* joint c of the group emitted last: the angle requested, the angle emitted
\* before and the angle emitted
LastRequested(c) == raw[JointIds[c]]
LastPrevious(c) == prev_deg_of(Len(sequence), c)
LastEmitted(c) == deg_of(Len(sequence), c)

\* C27: smoothing never overshoots: for every joint of every command group the
\* emitted angle lies between the angle emitted before for that joint (90
\* before the first group) and the clamped angle the waypoint requested, it
\* equals the requested angle whenever that is within max_delta of the
\* previous one, and the baseline carried after the group is the emitted angle.
SmoothingNeverOvershoots ==
    Len(sequence) > 0 =>
        \A c \in 1..Len(JointIds) :
            /\ LastRequested(c) \in 0..180
            /\ LastEmitted(c) >= Min(LastPrevious(c), LastRequested(c))
            /\ LastEmitted(c) <= Max(LastPrevious(c), LastRequested(c))
            /\ Abs(LastRequested(c) - LastPrevious(c)) <= max_delta
                  => LastEmitted(c) = LastRequested(c)
            /\ last_angles[JointIds[c]] = LastEmitted(c)

\* a group, not the first, in which one joint was held to a step of max_delta
\* short of its target and another joint moved all the way to its target
SmoothingWitness ==
    /\ Len(sequence) > 1
    /\ \E c \in 1..Len(JointIds) :
          /\ Abs(LastRequested(c) - LastPrevious(c)) > max_delta
          /\ Abs(LastEmitted(c) - LastPrevious(c)) = max_delta
          /\ LastEmitted(c) # LastRequested(c)
    /\ \E c \in 1..Len(JointIds) :
          /\ LastRequested(c) # LastPrevious(c)
          /\ LastEmitted(c) = LastRequested(c)
====
